---- MODULE Spec2Model ----
(***************************************************************************)
(* wuzup: extraction pipeline (cli.py, fetcher.py, image.py).              *)
(*                                                                         *)
(* Text is a sequence of one-character strings, so that join, splitlines,  *)
(* strip and lower are computed as Python computes them.  URLs are opaque  *)
(* identifiers (PageUrl, Urls).  What the network, the page and the OCR    *)
(* engine answer is chosen by the environment at the time of the call.     *)
(***************************************************************************)
EXTENDS Integers, Sequences, FiniteSets, TLC

VARIABLES
    pc,        \* position in _web_to_text_command / fetch_images
    args,      \* arguments of _web_to_text_command
    fetchers,  \* Fetcher objects constructed so far, in construction order
    cur,       \* index in fetchers of the fetcher the current attempt uses
    result,    \* ScrapeResult of the current attempt
    img_urls,  \* argument of the running fetch_images call
    idx,       \* position of the for loop of fetch_images
    images,    \* list built by fetch_images
    caller,    \* who called fetch_images
    text,      \* return value of the last _scrape_to_text (None or a string)
    calls,     \* every call made on a fetcher / library, in order
    attempts,  \* outcome of each finished _scrape_to_text call, in order
    outcome,   \* how _web_to_text_command / fetch_images ended
    \* one scrape call on a backend
    s_pc,         \* position in scrape
    s_self,       \* the fetcher scrape is called on
    s_selectors,  \* argument selectors
    s_dom,        \* the elements of the page at url, in document order
    s_resp,       \* what the page load answered
    s_acc,        \* img_urls, seen_urls, text_parts
    s_i,          \* position of the loop over selectors
    s_browser,    \* the browser of _get_page
    s_log,        \* calls made on requests / the page / the browser
    s_out,        \* how scrape ended (or is about to end, in the finally)
    s_past,       \* the browsers of the scrape calls before this one
    \* one image_to_text call
    o_pc,         \* position in image_to_text
    o_image,      \* the image: whether its pixels can be read, what OCR reads
    o_v,          \* position of the loop over variants
    o_acc,        \* seen, all_lines
    o_log,        \* the variants ocr_variant was called on, in order
    o_out,        \* how image_to_text ended
    o_block,      \* the OCR block _scrape_to_text makes of the result
    \* ScrapeResult instances
    r_heap,       \* the list objects
    r_inst,       \* the instances, each holding a reference to a list
    r_hist,       \* what was appended through each instance, in order
    \* one fetch_image call
    f_pc,         \* position in fetch_image
    f_self,       \* the fetcher fetch_image is called on
    f_resp,       \* what requests.get answered
    f_svg,        \* what _is_svg said of the body
    f_log,        \* calls made on requests and the decoders, in order
    f_out,        \* how fetch_image ended
    \* a Cache
    k_caches,     \* self._caches: sanitized topic -> the items of its cache
    k_clock,      \* items added so far
    k_last,       \* the last call on the cache, its result, the caches before it
    \* wuzup.__main__.main
    m_pc,         \* position in main
    m_args,       \* args.cache given, args.skip_search, args.query
    m_dir,        \* the directory behind the cache
    m_todo,       \* search results not added yet
    m_log         \* the calls made on the cache, each with the directory's state

\* _web_to_text_command and fetch_images
cvars == <<pc, args, fetchers, cur, result, img_urls, idx, images, caller,
           text, calls, attempts, outcome>>

svars == <<s_pc, s_self, s_selectors, s_dom, s_resp, s_acc, s_i, s_browser,
           s_log, s_out, s_past>>

ovars == <<o_pc, o_image, o_v, o_acc, o_log, o_out, o_block>>

rvars == <<r_heap, r_inst, r_hist>>

fvars == <<f_pc, f_self, f_resp, f_svg, f_log, f_out>>

kvars == <<k_caches, k_clock, k_last>>

mvars == <<m_pc, m_args, m_dir, m_todo, m_log>>

vars == <<cvars, svars, ovars, rvars, fvars, kvars, mvars>>

-----------------------------------------------------------------------------
(* Program constants *)

\* _is_svg: header = data[:512]
HeaderBytes == 512

\* _is_svg: header[:1024]
XmlWindow == 1024

-----------------------------------------------------------------------------
(* Bounds *)

\* longest list of image URLs a page yields / fetch_images is given
MaxUrls == 3

\* most elements of a page
MaxElems == 2

\* most ScrapeResult instances alive at once
MaxInstances == 2

\* most items added to a Cache; most results of a search
MaxItems == 3

-----------------------------------------------------------------------------
(* Python str operations on sequences of characters *)

NL == "\n"
Whitespace == {" ", NL}

Lower(s) ==
    [i \in 1..Len(s) |->
        CASE s[i] = "A" -> "a"
          [] s[i] = "B" -> "b"
          [] s[i] = "C" -> "c"
          [] OTHER -> s[i]]

RECURSIVE LStrip(_)
LStrip(s) ==
    IF s # <<>> /\ Head(s) \in Whitespace THEN LStrip(Tail(s)) ELSE s

RECURSIVE RStrip(_)
RStrip(s) ==
    IF s # <<>> /\ s[Len(s)] \in Whitespace
    THEN RStrip(SubSeq(s, 1, Len(s) - 1))
    ELSE s

Strip(s) == RStrip(LStrip(s))

\* str.splitlines(): the lines of s without their line breaks; a final line
\* break opens no further line.
RECURSIVE SplitLines(_)
SplitLines(s) ==
    IF s = <<>> THEN <<>>
    ELSE IF \E i \in 1..Len(s) : s[i] = NL
         THEN LET i == CHOOSE k \in 1..Len(s) :
                          s[k] = NL /\ \A j \in 1..(k - 1) : s[j] # NL
              IN  <<SubSeq(s, 1, i - 1)>> \o SplitLines(SubSeq(s, i + 1, Len(s)))
         ELSE <<s>>

\* "\n".join(parts)
RECURSIVE Join(_)
Join(parts) ==
    IF parts = <<>> THEN <<>>
    ELSE IF Len(parts) = 1 THEN parts[1]
    ELSE parts[1] \o <<NL>> \o Join(Tail(parts))

\* Python truthiness of a number
Truthy(n) == n # 0

None == [some |-> FALSE, val |-> <<>>]
Some(v) == [some |-> TRUE, val |-> v]

-----------------------------------------------------------------------------
(* The environment: URLs, images, what the OCR engine reads in them *)

PageUrl == 0
Urls == {1, 2}

\* imgBlank has no text, imgTrunc is a truncated file that opens but fails
\* when its pixels are first read.
Images == {"imgBlank", "imgHi", "imgLo", "imgTrunc"}

\* pytesseract.image_to_string of the five variants of an image, in the
\* order on_white, on_black, r_ch, g_ch, b_ch
Tesseract(image) ==
    CASE image = "imgHi" ->
            << <<"A", "b", NL>>, <<>>, <<" ", "a", "b", NL>>,
               <<"A", "b", NL, NL, "C", NL>>, <<"A", "b", NL>> >>
      [] image = "imgLo" ->
            << <<"a", "b", NL, " ", NL, "B", NL>>, <<"c", NL>>, <<"a", "b", NL>>,
               <<"b", NL>>, <<>> >>
      [] OTHER ->
            << <<>>, <<" ", NL>>, <<>>, <<>>, <<NL>> >>

Ok(v) == [ok |-> TRUE, val |-> v, exc |-> ""]
Raise(e) == [ok |-> FALSE, val |-> <<>>, exc |-> e]

-----------------------------------------------------------------------------
(* image.py *)

\* ocr_variant: the engine's text with leading/trailing whitespace stripped
ocr_variant(raw) == Strip(raw)

NoLines == [seen |-> {}, all_lines |-> <<>>]

\* the same with the line itself as the key
AddLineCaseSensitive(acc, line) ==
    IF line \notin acc.seen
    THEN [seen |-> acc.seen \cup {line}, all_lines |-> Append(acc.all_lines, line)]
    ELSE acc

\* if key not in seen: seen.add(key); all_lines.append(line)
AddLine(acc, line) ==
    LET key == Lower(line)
    IN  IF key \notin acc.seen
        THEN [seen |-> acc.seen \cup {key}, all_lines |-> Append(acc.all_lines, line)]
        ELSE acc

\* the same loop without "if not line: continue"
RECURSIVE VariantLinesKeepBlank(_, _)
VariantLinesKeepBlank(acc, lines) ==
    IF lines = <<>> THEN acc
    ELSE VariantLinesKeepBlank(AddLine(acc, Strip(Head(lines))), Tail(lines))

\* the loop of image_to_text over the lines of one variant text, in order
RECURSIVE VariantLines(_, _)
VariantLines(acc, lines) ==
    IF lines = <<>> THEN acc
    ELSE LET line == Strip(Head(lines))
         IN  VariantLines(IF line = <<>> THEN acc ELSE AddLine(acc, line), Tail(lines))

RECURSIVE VariantLoop(_, _)
VariantLoop(acc, raws) ==
    IF raws = <<>> THEN acc
    ELSE VariantLoop(VariantLines(acc, SplitLines(ocr_variant(Head(raws)))), Tail(raws))

\* composite_on_color reads the pixels: a truncated file raises there
image_to_text(image) ==
    IF image = "imgTrunc" THEN Raise("OSError")
    ELSE Ok(Join(VariantLoop(NoLines, Tesseract(image)).all_lines))

-----------------------------------------------------------------------------
(* fetcher.py *)

\* what requests.get(url) answers: a connection failure, a timeout, or a
\* response
Responses ==
    {[net |-> "ConnectionError", status |-> 0, body |-> ""],
     [net |-> "Timeout", status |-> 0, body |-> ""],
     [net |-> "ok", status |-> 404, body |-> ""],
     [net |-> "ok", status |-> 200, body |-> "garbage"]}
    \cup {[net |-> "ok", status |-> 200, body |-> i] : i \in Images}

fetch_image(resp) ==
    IF resp.net # "ok" THEN Raise(resp.net)
    ELSE IF resp.status >= 400 THEN Raise("HTTPError")
    ELSE IF resp.body \notin Images THEN Raise("UnidentifiedImageError")
    ELSE Ok(resp.body)

FetchImagesInitStale == <<"imgBlank">>

\* images: list = []
FetchImagesInit == <<>>

FetchImagesBodyPrepend(imgs, r) == IF r.ok THEN <<r.val>> \o imgs ELSE imgs

\* try: images.append(self.fetch_image(img_url)) except Exception: log
FetchImagesBody(imgs, r) == IF r.ok THEN Append(imgs, r.val) ELSE imgs

-----------------------------------------------------------------------------
(* cli.py *)

PageWaitMsg ==
    "ValueError: --page-wait-for-timeout requires --playwright or --fallback-to-playwright"

NoMatchMsg == "ValueError: No images or text found matching selectors"

make_fetcher(use_playwright, timeout, page_wait_for_timeout) ==
    IF use_playwright
    THEN Ok([kind |-> "playwright", timeout |-> timeout,
             page_wait_for_timeout |-> page_wait_for_timeout])
    ELSE IF Truthy(page_wait_for_timeout)
    THEN Raise(PageWaitMsg)
    ELSE Ok([kind |-> "requests", timeout |-> timeout,
             page_wait_for_timeout |-> page_wait_for_timeout])

\* _scrape_to_text, lines 95-100: the lines of one image's text
RECURSIVE MergeLines(_, _)
MergeLines(acc, lines) ==
    IF lines = <<>> THEN acc
    ELSE LET line == Head(lines)
             key == Lower(line)
         IN  MergeLines(IF key \notin acc.seen
                        THEN [seen |-> acc.seen \cup {key},
                              all_lines |-> Append(acc.all_lines, line)]
                        ELSE acc,
                        Tail(lines))

\* the loop over the fetched images with a seen set for each image
RECURSIVE ImageLoopFreshSeen(_, _)
ImageLoopFreshSeen(acc, imgs) ==
    IF imgs = <<>> THEN Ok(acc)
    ELSE LET t == image_to_text(Head(imgs))
         IN  IF ~t.ok THEN t
             ELSE ImageLoopFreshSeen(
                      MergeLines([acc EXCEPT !.seen = {}], SplitLines(t.val)), Tail(imgs))

\* the loop of _scrape_to_text over the fetched images
RECURSIVE ImageLoop(_, _)
ImageLoop(acc, imgs) ==
    IF imgs = <<>> THEN Ok(acc)
    ELSE LET t == image_to_text(Head(imgs))
         IN  IF ~t.ok THEN t
             ELSE ImageLoop(MergeLines(acc, SplitLines(t.val)), Tail(imgs))

\* parts of _scrape_to_text: the OCR block if any image was fetched, then
\* the element text if it is not blank
Parts(all_lines, imgs, element_text) ==
    (IF imgs # <<>> THEN <<Join(all_lines)>> ELSE <<>>)
    \o (IF Strip(element_text) # <<>> THEN <<element_text>> ELSE <<>>)

\* _scrape_to_text after fetch_images: None, the joined parts, or an error
scrape_to_text(imgs, element_text) ==
    LET r == ImageLoop(NoLines, imgs)
    IN  IF ~r.ok THEN r
        ELSE LET parts == Parts(r.val.all_lines, imgs, element_text)
             IN  Ok(IF parts # <<>> THEN Some(Join(parts)) ELSE None)

ConfigInvalidPositiveOnly(a) ==
    a.page_wait_for_timeout > 0 /\ ~a.use_playwright /\ ~a.fallback_to_playwright

\* line 152
ConfigInvalid(a) ==
    Truthy(a.page_wait_for_timeout) /\ ~a.use_playwright /\ ~a.fallback_to_playwright

FirstPageWaitAlways(a) == a.page_wait_for_timeout

\* line 158
FirstPageWait(a) == IF a.use_playwright THEN a.page_wait_for_timeout ELSE 0

\* line 173
FallbackPageWait(a) == a.page_wait_for_timeout

DirectModeNoneOnly(a) == ~a.selectors.some

\* line 161
DirectMode(a) == ~a.selectors.some \/ a.selectors.val = <<>>

ShouldFallbackInverted(a) == a.fallback_to_playwright /\ a.use_playwright

ShouldFallbackAnyBackend(a) == a.fallback_to_playwright

\* line 171
ShouldFallback(a) == a.fallback_to_playwright /\ ~a.use_playwright

-----------------------------------------------------------------------------
(* What a page yields *)

RECURSIVE SeqsUpTo(_, _)
SeqsUpTo(S, n) ==
    IF n = 0 THEN {<<>>}
    ELSE LET shorter == SeqsUpTo(S, n - 1)
         IN  shorter \cup {Append(q, x) : q \in shorter, x \in S}

UrlLists == SeqsUpTo(Urls, MaxUrls)

\* ScrapeResult.img_urls never holds a URL twice
UniqueUrlLists == {q \in UrlLists : \A i, j \in 1..Len(q) : q[i] = q[j] => i = j}

\* ScrapeResult.element_text: the stripped non-empty blocks joined by newline
ElementTexts == {<<>>, <<"C", "a", "p">>}

ScrapeResults == [img_urls : UniqueUrlLists, element_text : ElementTexts]

EmptyResult == [img_urls |-> <<>>, element_text |-> <<>>]

\* errors of the page load: requests.get / raise_for_status for the light
\* backend, page.goto / the status check for the heavy one
ScrapeErrors(kind) ==
    IF kind = "requests" THEN {"ConnectionError", "Timeout", "HTTPError"}
    ELSE {"TimeoutError", "RuntimeError"}

Selectors == {None, Some(<<>>), Some(<<".sel">>)}

Args ==
    [url : {PageUrl}, selectors : Selectors, timeout : {5, 30},
     page_wait_for_timeout : {0, 3, -1},
     use_playwright : BOOLEAN, fallback_to_playwright : BOOLEAN]

NoArgs ==
    [url |-> PageUrl, selectors |-> None, timeout |-> 30,
     page_wait_for_timeout |-> 0,
     use_playwright |-> FALSE, fallback_to_playwright |-> FALSE]

Call(op, f, url, out) == [op |-> op, f |-> f, url |-> url, out |-> out]

Running == [kind |-> "running", val |-> <<>>, exc |-> ""]
Returned(v) == [kind |-> "returned", val |-> v, exc |-> ""]
Raised(e) == [kind |-> "raised", val |-> <<>>, exc |-> e]

NoFetcher == [kind |-> "none", timeout |-> 0, page_wait_for_timeout |-> 0]
NoResponse == [net |-> "none", status |-> 0]
NoAcc == [img_urls |-> <<>>, seen_urls |-> {}, text_parts |-> <<>>]
NoBrowser == [state |-> "none", closes |-> 0, yielded |-> FALSE]

\* no scrape call in progress
ScrapeAtRest ==
    /\ s_pc = "idle"
    /\ s_self = NoFetcher
    /\ s_selectors = <<>>
    /\ s_dom = <<>>
    /\ s_resp = NoResponse
    /\ s_acc = NoAcc
    /\ s_i = 1
    /\ s_browser = NoBrowser
    /\ s_log = <<>>
    /\ s_out = Running
    /\ s_past = {}

\* no image_to_text call in progress
OcrAtRest ==
    /\ o_pc = "idle"
    /\ o_image = [readable |-> TRUE]
    /\ o_v = 1
    /\ o_acc = NoLines
    /\ o_log = <<>>
    /\ o_out = Running
    /\ o_block = NoLines

\* no ScrapeResult instance
ResultsAtRest ==
    /\ r_heap = <<>>
    /\ r_inst = <<>>
    /\ r_hist = <<>>

NoImageResponse == [net |-> "none", status |-> 0, body |-> <<>>]

\* no fetch_image call in progress
ImageAtRest ==
    /\ f_pc = "idle"
    /\ f_self = NoFetcher
    /\ f_resp = NoImageResponse
    /\ f_svg = FALSE
    /\ f_log = <<>>
    /\ f_out = Running

\* str.isalnum of one character
Alnum == {"a", "b", "c"}

\* _sanitize_topic
sanitize_topic(topic) == SelectSeq(topic, LAMBDA x : x \in Alnum)

\* topics as callers write them: "ab", "a b", "c", "!"
Topics == {<<"a", "b">>, <<"a", " ", "b">>, <<"c">>, <<"!">>}

SanTopics == {sanitize_topic(t) : t \in Topics}

\* objects to store; "x" and "X" are two objects that == calls equal
Data == {"x", "X", "y"}

\* item.data == data
DataEq(a, b) == a = b \/ {a, b} = {"x", "X"}

\* a topic self._caches has no entry for
NoCache == [open |-> FALSE, items |-> <<>>]

EmptyCaches == [t \in SanTopics |-> NoCache]

NoCall == [op |-> "none", topic |-> <<>>, data |-> "", safe |-> FALSE,
           ret |-> FALSE, dumped |-> <<>>, before |-> EmptyCaches]

\* a Cache made on an empty directory, no call made on it
CacheAtRest ==
    /\ k_caches = EmptyCaches
    /\ k_clock = 0
    /\ k_last = NoCall

NoMainArgs == [cache |-> FALSE, skip_search |-> FALSE, query |-> <<>>]

\* main not started
MainAtRest ==
    /\ m_pc = "idle"
    /\ m_args = NoMainArgs
    /\ m_dir = "none"
    /\ m_todo = <<>>
    /\ m_log = <<>>

\* no _web_to_text_command call in progress
CommandAtRest ==
    /\ pc = "idle"
    /\ args = NoArgs
    /\ fetchers = <<>>
    /\ cur = 0
    /\ result = EmptyResult
    /\ img_urls = <<>>
    /\ idx = 1
    /\ images = <<>>
    /\ caller = "none"
    /\ text = None
    /\ calls = <<>>
    /\ attempts = <<>>
    /\ outcome = Running

-----------------------------------------------------------------------------
(* _web_to_text_command *)

SwallowAsEmpty(e) == [pc |-> "decide", outcome |-> outcome, text |-> None]

PropagateAsNoMatch(e) == [pc |-> "done", outcome |-> Raised(NoMatchMsg), text |-> text]

\* lines 166 and 174: no handler surrounds _scrape_to_text, an exception
\* raised in it ends _web_to_text_command
Propagate(e) == [pc |-> "done", outcome |-> Raised(e), text |-> text]

Init ==
    /\ pc = "idle"
    /\ args = NoArgs
    /\ fetchers = <<>>
    /\ cur = 0
    /\ result = EmptyResult
    /\ img_urls = <<>>
    /\ idx = 1
    /\ images = <<>>
    /\ caller = "none"
    /\ text = None
    /\ calls = <<>>
    /\ attempts = <<>>
    /\ outcome = Running
    /\ ScrapeAtRest /\ OcrAtRest /\ ResultsAtRest
    /\ ImageAtRest /\ CacheAtRest /\ MainAtRest

\* the caller invokes _web_to_text_command
Invoke ==
    /\ pc = "idle"
    /\ \E a \in Args : args' = a
    /\ pc' = "validate"
    /\ UNCHANGED <<fetchers, cur, result, img_urls, idx, images, caller, text,
                   calls, attempts, outcome>>
    /\ UNCHANGED <<svars, ovars, rvars, fvars, kvars, mvars>>

\* lines 152-153
Validate ==
    /\ pc = "validate"
    /\ IF ConfigInvalid(args)
       THEN /\ outcome' = Raised(PageWaitMsg)
            /\ pc' = "done"
       ELSE /\ pc' = "make_fetcher"
            /\ UNCHANGED outcome
    /\ UNCHANGED <<args, fetchers, cur, result, img_urls, idx, images, caller,
                   text, calls, attempts>>
    /\ UNCHANGED <<svars, ovars, rvars, fvars, kvars, mvars>>

\* lines 155-159
MakeFetcher ==
    /\ pc = "make_fetcher"
    /\ LET r == make_fetcher(args.use_playwright, args.timeout, FirstPageWait(args))
       IN  IF r.ok
           THEN /\ fetchers' = Append(fetchers, r.val)
                /\ cur' = Len(fetchers) + 1
                /\ pc' = IF DirectMode(args) THEN "direct" ELSE "scrape"
                /\ UNCHANGED outcome
           ELSE /\ outcome' = Raised(r.exc)
                /\ pc' = "done"
                /\ UNCHANGED <<fetchers, cur>>
    /\ UNCHANGED <<args, result, img_urls, idx, images, caller, text, calls, attempts>>
    /\ UNCHANGED <<svars, ovars, rvars, fvars, kvars, mvars>>

\* lines 161-164
DirectImage ==
    /\ pc = "direct"
    /\ \E resp \in Responses :
         LET r == fetch_image(resp)
             t == IF r.ok THEN image_to_text(r.val) ELSE r
         IN  /\ calls' = Append(calls, Call("fetch_image", cur, args.url,
                                            IF r.ok THEN r.val ELSE r.exc))
             /\ outcome' = IF t.ok THEN Returned(t.val) ELSE Raised(t.exc)
    /\ pc' = "done"
    /\ UNCHANGED <<args, fetchers, cur, result, img_urls, idx, images, caller,
                   text, attempts>>
    /\ UNCHANGED <<svars, ovars, rvars, fvars, kvars, mvars>>

\* _scrape_to_text, line 84: fetcher.scrape(url, selectors), then the call
\* of fetch_images at line 86
Scrape ==
    /\ pc = "scrape"
    /\ \/ \E e \in ScrapeErrors(fetchers[cur].kind) :
            /\ calls' = Append(calls, Call("scrape", cur, args.url, e))
            /\ attempts' = Append(attempts, "raised")
            /\ outcome' = Propagate(e).outcome
            /\ pc' = Propagate(e).pc
            /\ text' = Propagate(e).text
            /\ UNCHANGED <<result, img_urls, idx, images, caller>>
       \/ \E sr \in ScrapeResults :
            /\ calls' = Append(calls, Call("scrape", cur, args.url, "ok"))
            /\ result' = sr
            /\ img_urls' = sr.img_urls
            /\ idx' = 1
            /\ images' = FetchImagesInit
            /\ caller' = "scrape_to_text"
            /\ pc' = "fetch_images"
            /\ UNCHANGED <<attempts, outcome, text>>
    /\ UNCHANGED <<args, fetchers, cur>>
    /\ UNCHANGED <<svars, ovars, rvars, fvars, kvars, mvars>>

\* fetch_images, lines 90-94: one turn of the loop
FetchImagesStep ==
    /\ pc = "fetch_images"
    /\ idx <= Len(img_urls)
    /\ \E resp \in Responses :
         LET r == fetch_image(resp)
         IN  /\ calls' = Append(calls, Call("fetch_image", cur, img_urls[idx],
                                            IF r.ok THEN r.val ELSE r.exc))
             /\ images' = FetchImagesBody(images, r)
    /\ idx' = idx + 1
    /\ UNCHANGED <<pc, args, fetchers, cur, result, img_urls, caller, text,
                   attempts, outcome>>
    /\ UNCHANGED <<svars, ovars, rvars, fvars, kvars, mvars>>

\* fetch_images, line 96
FetchImagesReturn ==
    /\ pc = "fetch_images"
    /\ idx > Len(img_urls)
    /\ IF caller = "scrape_to_text"
       THEN /\ pc' = "combine"
            /\ UNCHANGED outcome
       ELSE /\ pc' = "done"
            /\ outcome' = Returned(images)
    /\ UNCHANGED <<args, fetchers, cur, result, img_urls, idx, images, caller,
                   text, calls, attempts>>
    /\ UNCHANGED <<svars, ovars, rvars, fvars, kvars, mvars>>

\* _scrape_to_text, lines 88-111
Combine ==
    /\ pc = "combine"
    /\ LET r == scrape_to_text(images, result.element_text)
       IN  IF r.ok
           THEN /\ text' = r.val
                /\ attempts' = Append(attempts, IF r.val.some THEN "text" ELSE "empty")
                /\ pc' = "decide"
                /\ UNCHANGED outcome
           ELSE /\ attempts' = Append(attempts, "raised")
                /\ outcome' = Propagate(r.exc).outcome
                /\ pc' = Propagate(r.exc).pc
                /\ text' = Propagate(r.exc).text
    /\ UNCHANGED <<args, fetchers, cur, result, img_urls, idx, images, caller, calls>>
    /\ UNCHANGED <<svars, ovars, rvars, fvars, kvars, mvars>>

\* lines 167-168 and 175-176
ReturnText ==
    /\ pc = "decide"
    /\ text.some
    /\ outcome' = Returned(text.val)
    /\ pc' = "done"
    /\ UNCHANGED <<args, fetchers, cur, result, img_urls, idx, images, caller,
                   text, calls, attempts>>
    /\ UNCHANGED <<svars, ovars, rvars, fvars, kvars, mvars>>

\* lines 171-174
Fallback ==
    /\ pc = "decide"
    /\ ~text.some
    /\ cur = 1
    /\ ShouldFallback(args)
    /\ LET r == make_fetcher(TRUE, args.timeout, FallbackPageWait(args))
       IN  /\ fetchers' = Append(fetchers, r.val)
           /\ cur' = Len(fetchers) + 1
    /\ pc' = "scrape"
    /\ UNCHANGED <<args, result, img_urls, idx, images, caller, text, calls,
                   attempts, outcome>>
    /\ UNCHANGED <<svars, ovars, rvars, fvars, kvars, mvars>>

\* line 178
RaiseNoMatch ==
    /\ pc = "decide"
    /\ ~text.some
    /\ ~(cur = 1 /\ ShouldFallback(args))
    /\ outcome' = Raised(NoMatchMsg)
    /\ pc' = "done"
    /\ UNCHANGED <<args, fetchers, cur, result, img_urls, idx, images, caller,
                   text, calls, attempts>>
    /\ UNCHANGED <<svars, ovars, rvars, fvars, kvars, mvars>>

Next ==
    \/ Invoke
    \/ Validate
    \/ MakeFetcher
    \/ DirectImage
    \/ Scrape
    \/ FetchImagesStep
    \/ FetchImagesReturn
    \/ Combine
    \/ ReturnText
    \/ Fallback
    \/ RaiseNoMatch

Spec == Init /\ [][Next]_vars

-----------------------------------------------------------------------------
(* Fetcher.fetch_images on its own, called on a fetcher with any URL list *)

InitFetch ==
    /\ pc = "fetch_images"
    /\ args = NoArgs
    /\ fetchers = <<[kind |-> "requests", timeout |-> 30, page_wait_for_timeout |-> 0]>>
    /\ cur = 1
    /\ result = EmptyResult
    /\ img_urls \in UrlLists
    /\ idx = 1
    /\ images = FetchImagesInit
    /\ caller = "none"
    /\ text = None
    /\ calls = <<>>
    /\ attempts = <<>>
    /\ outcome = Running
    /\ ScrapeAtRest /\ OcrAtRest /\ ResultsAtRest
    /\ ImageAtRest /\ CacheAtRest /\ MainAtRest

NextFetch ==
    \/ FetchImagesStep
    \/ FetchImagesReturn

SpecFetch == InitFetch /\ [][NextFetch]_vars

-----------------------------------------------------------------------------
(* The page: elements, attributes, selectors *)

Absent == "none"

\* value or other, on attribute values: None and "" are false
AttrOr(a, b) == IF a \notin {Absent, ""} THEN a ELSE b

\* urljoin(url, img_url) for the page URL: "/a" and "http://h/a" are the
\* same absolute URL
urljoin(base, ref) ==
    CASE ref = "/a" -> 1
      [] ref = "http://h/a" -> 1
      [] ref = "/b" -> 2
      [] OTHER -> base

Img(src, data_src, sels) ==
    [src |-> src, data_src |-> data_src, sels |-> sels,
     texts |-> <<>>, inner |-> <<>>, kids |-> <<>>]

\* the elements pages are made of: src/data-src attributes, the selectors the
\* element matches, its text nodes (descendants included), its rendered
\* inner text, the <img> elements nested in it
Elements ==
    {Img("/a", Absent, {".a"}),
     Img("", "http://h/a", {".a", ".b"}),
     [src |-> Absent, data_src |-> Absent, sels |-> {".b"},
      texts |-> << <<" ", "T", " ">>, <<NL>>, <<"U">> >>, inner |-> <<"T", NL, "U">>,
      kids |-> <<Img("/a", Absent, {".a"}), Img(Absent, "/b", {})>>],
     [src |-> "/b", data_src |-> "/a", sels |-> {".a"},
      texts |-> << <<" ">> >>, inner |-> <<" ">>,
      kids |-> <<Img(Absent, Absent, {}), Img("/a", Absent, {})>>],
     [src |-> Absent, data_src |-> Absent, sels |-> {".a", ".b"},
      texts |-> << <<"U">> >>, inner |-> <<"U">>, kids |-> <<>>]}

Pages == SeqsUpTo(Elements, MaxElems)

\* "!!" is no valid selector, ".x" matches nothing
SelectorLists ==
    {<<>>, <<".a">>, <<".b">>, <<".x">>, <<".a", ".b">>, <<".b", ".a">>,
     <<".a", ".a">>, <<".b", "!!">>}

ValidSelector(selector) == selector # "!!"

\* soup.select(selector) / page.query_selector_all(selector): the matching
\* elements in document order, nested ones after the element holding them
RECURSIVE select(_, _)
select(dom, selector) ==
    IF dom = <<>> THEN <<>>
    ELSE LET e == Head(dom)
         IN  (IF selector \in e.sels THEN <<e>> ELSE <<>>)
             \o SelectSeq(e.kids, LAMBDA k : selector \in k.sels)
             \o select(Tail(dom), selector)

ScrapeFetchers ==
    [kind : {"requests"}, timeout : {5, 30}, page_wait_for_timeout : {0}]
    \cup [kind : {"playwright"}, timeout : {5, 30}, page_wait_for_timeout : {0, 3, -1}]

\* what requests.get(url) answers
RequestsLoads ==
    {[net |-> "ConnectionError", status |-> 0], [net |-> "Timeout", status |-> 0],
     [net |-> "ok", status |-> 404], [net |-> "ok", status |-> 200]}

\* what page.goto(url) answers: an error, no response, or a response
PlaywrightLoads ==
    {[net |-> "TimeoutError", status |-> 0], [net |-> "null", status |-> 0],
     [net |-> "ok", status |-> 404], [net |-> "ok", status |-> 200]}

PageOp(op, n, selector) == [op |-> op, n |-> n, selector |-> selector]

ScrapeResult(urls, element_text) == [img_urls |-> urls, element_text |-> element_text]

-----------------------------------------------------------------------------
(* requests_fetcher.py *)

\* _record_img without its seen_urls test
RecordImgNoSeen(acc, tag) ==
    LET img_url == AttrOr(tag.src, tag.data_src)
    IN  IF img_url \notin {Absent, ""}
        THEN [acc EXCEPT !.img_urls = Append(@, urljoin(PageUrl, img_url))]
        ELSE acc

\* _record_img
record_img(acc, tag) ==
    LET img_url == AttrOr(tag.src, tag.data_src)
    IN  IF img_url \notin {Absent, ""}
        THEN LET resolved == urljoin(PageUrl, img_url)
             IN  IF resolved \notin acc.seen_urls
                 THEN [acc EXCEPT !.seen_urls = @ \cup {resolved},
                                  !.img_urls = Append(@, resolved)]
                 ELSE acc
        ELSE acc

RECURSIVE RecordNested(_, _)
RecordNested(acc, kids) ==
    IF kids = <<>> THEN acc
    ELSE RecordNested(record_img(acc, Head(kids)), Tail(kids))

\* tag.get_text(separator=" ", strip=True): the stripped non-empty text
\* nodes joined by one space
RECURSIVE get_text(_)
get_text(texts) ==
    IF texts = <<>> THEN <<>>
    ELSE LET t == Strip(Head(texts))
             rest == get_text(Tail(texts))
         IN  IF t = <<>> THEN rest
             ELSE IF rest = <<>> THEN t
             ELSE t \o <<" ">> \o rest

\* lines 59-66 with the nested images recorded before the element's own
RequestsTagNestedFirst(acc, tag) ==
    LET a == record_img(RecordNested(acc, tag.kids), tag)
        txt == get_text(tag.texts)
    IN  IF txt # <<>> THEN [a EXCEPT !.text_parts = Append(@, txt)] ELSE a

\* the body of the loop over soup.select(selector), lines 59-66
RequestsTag(acc, tag) ==
    LET a == RecordNested(record_img(acc, tag), tag.kids)
        txt == get_text(tag.texts)
    IN  IF txt # <<>> THEN [a EXCEPT !.text_parts = Append(@, txt)] ELSE a

RECURSIVE RequestsTags(_, _)
RequestsTags(acc, tags) ==
    IF tags = <<>> THEN acc ELSE RequestsTags(RequestsTag(acc, Head(tags)), Tail(tags))

-----------------------------------------------------------------------------
(* playwright_fetcher.py *)

\* _collect_img reading data-src first
CollectImgLazyFirst(acc, element) ==
    LET img_url == AttrOr(element.data_src, element.src)
    IN  IF img_url \notin {Absent, ""}
        THEN LET resolved == urljoin(PageUrl, img_url)
             IN  IF resolved \notin acc.seen_urls
                 THEN [acc EXCEPT !.seen_urls = @ \cup {resolved},
                                  !.img_urls = Append(@, resolved)]
                 ELSE acc
        ELSE acc

\* _collect_img
collect_img(acc, element) ==
    LET img_url == AttrOr(element.src, element.data_src)
    IN  IF img_url \notin {Absent, ""}
        THEN LET resolved == urljoin(PageUrl, img_url)
             IN  IF resolved \notin acc.seen_urls
                 THEN [acc EXCEPT !.seen_urls = @ \cup {resolved},
                                  !.img_urls = Append(@, resolved)]
                 ELSE acc
        ELSE acc

\* lines 104-105 left out
CollectNestedNone(acc, kids) == acc

RECURSIVE CollectNested(_, _)
CollectNested(acc, kids) ==
    IF kids = <<>> THEN acc
    ELSE CollectNested(collect_img(acc, Head(kids)), Tail(kids))

\* lines 101-109 without the "if text:" of line 107
PlaywrightElementAnyText(acc, element) ==
    LET a == CollectNested(collect_img(acc, element), element.kids)
    IN  [a EXCEPT !.text_parts = Append(@, Strip(element.inner))]

\* the body of the loop over page.query_selector_all(selector), lines 101-109
PlaywrightElement(acc, element) ==
    LET a == CollectNested(collect_img(acc, element), element.kids)
        txt == Strip(element.inner)
    IN  IF txt # <<>> THEN [a EXCEPT !.text_parts = Append(@, txt)] ELSE a

RECURSIVE PlaywrightElements(_, _)
PlaywrightElements(acc, elements) ==
    IF elements = <<>> THEN acc
    ELSE PlaywrightElements(PlaywrightElement(acc, Head(elements)), Tail(elements))

\* the loop over selectors of either backend, for the first k selectors
RECURSIVE SelectorLoop(_, _, _, _)
SelectorLoop(kind, dom, selectors, k) ==
    IF k = 0 THEN NoAcc
    ELSE LET acc == SelectorLoop(kind, dom, selectors, k - 1)
             found == select(dom, selectors[k])
         IN  IF kind = "requests" THEN RequestsTags(acc, found)
             ELSE PlaywrightElements(acc, found)

-----------------------------------------------------------------------------
(* scrape, on either backend; one call after the other *)

InitScrape == CommandAtRest /\ ScrapeAtRest /\ OcrAtRest /\ ResultsAtRest
    /\ ImageAtRest /\ CacheAtRest /\ MainAtRest

\* fetcher.scrape(url, selectors) is called
ScrapeCall ==
    /\ s_pc = "idle"
    /\ \E f \in ScrapeFetchers, sl \in SelectorLists, d \in Pages :
         /\ s_self' = f
         /\ s_selectors' = sl
         /\ s_dom' = d
         /\ s_pc' = IF f.kind = "requests" THEN "get" ELSE "get_page"
    /\ UNCHANGED <<s_resp, s_acc, s_i, s_browser, s_log, s_out, s_past>>
    /\ UNCHANGED <<cvars, ovars, rvars, fvars, kvars, mvars>>

\* lines 37-44 without raise_for_status, a failed request read as an empty page
RequestsGetLenient ==
    /\ s_pc = "get"
    /\ \E resp \in RequestsLoads :
         /\ s_resp' = resp
         /\ s_dom' = IF resp.net = "ok" /\ resp.status < 400 THEN s_dom ELSE <<>>
    /\ s_pc' = "select"
    /\ s_log' = Append(s_log, PageOp("get", s_self.timeout, ""))
    /\ UNCHANGED <<s_self, s_selectors, s_acc, s_i, s_browser, s_out, s_past>>
    /\ UNCHANGED <<cvars, ovars, rvars, fvars, kvars, mvars>>

\* RequestsFetcher.scrape, lines 37-44
RequestsGet ==
    /\ s_pc = "get"
    /\ \E resp \in RequestsLoads :
         /\ s_resp' = resp
         /\ IF resp.net # "ok"
            THEN s_out' = Raised(resp.net) /\ s_pc' = "done"
            ELSE IF resp.status >= 400
            THEN s_out' = Raised("HTTPError") /\ s_pc' = "done"
            ELSE s_out' = s_out /\ s_pc' = "select"
    /\ s_log' = Append(s_log, PageOp("get", s_self.timeout, ""))
    /\ UNCHANGED <<s_self, s_selectors, s_dom, s_acc, s_i, s_browser, s_past>>
    /\ UNCHANGED <<cvars, ovars, rvars, fvars, kvars, mvars>>

\* RequestsFetcher.scrape, lines 57-66: one turn of the loop over selectors
RequestsSelect ==
    /\ s_pc = "select" /\ s_self.kind = "requests"
    /\ s_i <= Len(s_selectors)
    /\ IF ValidSelector(s_selectors[s_i])
       THEN /\ s_acc' = RequestsTags(s_acc, select(s_dom, s_selectors[s_i]))
            /\ s_i' = s_i + 1
            /\ UNCHANGED <<s_pc, s_out>>
       ELSE /\ s_out' = Raised("SelectorSyntaxError")
            /\ s_pc' = "done"
            /\ UNCHANGED <<s_acc, s_i>>
    /\ s_log' = Append(s_log, PageOp("select", 0, s_selectors[s_i]))
    /\ UNCHANGED <<s_self, s_selectors, s_dom, s_resp, s_browser, s_past>>
    /\ UNCHANGED <<cvars, ovars, rvars, fvars, kvars, mvars>>

\* RequestsFetcher.scrape, line 69
RequestsReturn ==
    /\ s_pc = "select" /\ s_self.kind = "requests"
    /\ s_i > Len(s_selectors)
    /\ s_out' = Returned(ScrapeResult(s_acc.img_urls, Join(s_acc.text_parts)))
    /\ s_pc' = "done"
    /\ UNCHANGED <<s_self, s_selectors, s_dom, s_resp, s_acc, s_i, s_browser,
                   s_log, s_past>>
    /\ UNCHANGED <<cvars, ovars, rvars, fvars, kvars, mvars>>

\* leaving "with sync_playwright()" stops the driver and what it launched
ExitPlaywright(b) == IF b.state = "open" THEN [b EXCEPT !.state = "closed"] ELSE b

\* _get_page, lines 26-36: launch the browser, open a page, yield it
GetPage ==
    /\ s_pc = "get_page"
    /\ \/ /\ s_browser' = [state |-> "open", closes |-> 0, yielded |-> TRUE]
          /\ s_log' = Append(s_log, PageOp("launch", 0, ""))
          /\ s_pc' = "goto"
          /\ UNCHANGED s_out
       \/ /\ s_out' = Raised("PlaywrightError")
          /\ s_pc' = "done"
          /\ UNCHANGED <<s_browser, s_log>>
       \/ /\ s_browser' = ExitPlaywright([state |-> "open", closes |-> 0, yielded |-> FALSE])
          /\ s_log' = Append(s_log, PageOp("launch", 0, ""))
          /\ s_out' = Raised("PlaywrightError")
          /\ s_pc' = "done"
    /\ UNCHANGED <<s_self, s_selectors, s_dom, s_resp, s_acc, s_i, s_past>>
    /\ UNCHANGED <<cvars, ovars, rvars, fvars, kvars, mvars>>

\* PlaywrightFetcher.scrape, line 74
Goto ==
    /\ s_pc = "goto"
    /\ \E resp \in PlaywrightLoads :
         /\ s_resp' = resp
         /\ IF resp.net \notin {"ok", "null"}
            THEN s_out' = Raised(resp.net) /\ s_pc' = "finally"
            ELSE s_out' = s_out /\ s_pc' = "wait"
    /\ s_log' = Append(s_log, PageOp("goto", s_self.timeout * 1000, ""))
    /\ UNCHANGED <<s_self, s_selectors, s_dom, s_acc, s_i, s_browser, s_past>>
    /\ UNCHANGED <<cvars, ovars, rvars, fvars, kvars, mvars>>

\* lines 76-78 with the delay tested as "if self.page_wait_for_timeout:"
WaitIfNonzero ==
    /\ s_pc = "wait"
    /\ s_log' = IF Truthy(s_self.page_wait_for_timeout)
                THEN Append(s_log, PageOp("wait_for_timeout",
                                          s_self.page_wait_for_timeout * 1000, ""))
                ELSE s_log
    /\ s_pc' = "status"
    /\ UNCHANGED <<s_self, s_selectors, s_dom, s_resp, s_acc, s_i, s_browser,
                   s_out, s_past>>
    /\ UNCHANGED <<cvars, ovars, rvars, fvars, kvars, mvars>>

\* PlaywrightFetcher.scrape, lines 76-78
WaitForTimeout ==
    /\ s_pc = "wait"
    /\ s_log' = IF s_self.page_wait_for_timeout > 0
                THEN Append(s_log, PageOp("wait_for_timeout",
                                          s_self.page_wait_for_timeout * 1000, ""))
                ELSE s_log
    /\ s_pc' = "status"
    /\ UNCHANGED <<s_self, s_selectors, s_dom, s_resp, s_acc, s_i, s_browser,
                   s_out, s_past>>
    /\ UNCHANGED <<cvars, ovars, rvars, fvars, kvars, mvars>>

\* PlaywrightFetcher.scrape, lines 79-86
CheckStatus ==
    /\ s_pc = "status"
    /\ IF s_resp.net # "null" /\ s_resp.status >= 400
       THEN s_out' = Raised("RuntimeError: HTTP 404") /\ s_pc' = "finally"
       ELSE s_out' = s_out /\ s_pc' = "select"
    /\ UNCHANGED <<s_self, s_selectors, s_dom, s_resp, s_acc, s_i, s_browser,
                   s_log, s_past>>
    /\ UNCHANGED <<cvars, ovars, rvars, fvars, kvars, mvars>>

\* PlaywrightFetcher.scrape, lines 99-109: one turn of the loop over selectors
PlaywrightSelect ==
    /\ s_pc = "select" /\ s_self.kind = "playwright"
    /\ s_i <= Len(s_selectors)
    /\ IF ValidSelector(s_selectors[s_i])
       THEN /\ s_acc' = PlaywrightElements(s_acc, select(s_dom, s_selectors[s_i]))
            /\ s_i' = s_i + 1
            /\ UNCHANGED <<s_pc, s_out>>
       ELSE /\ s_out' = Raised("PlaywrightError")
            /\ s_pc' = "finally"
            /\ UNCHANGED <<s_acc, s_i>>
    /\ s_log' = Append(s_log, PageOp("query_selector_all", 0, s_selectors[s_i]))
    /\ UNCHANGED <<s_self, s_selectors, s_dom, s_resp, s_browser, s_past>>
    /\ UNCHANGED <<cvars, ovars, rvars, fvars, kvars, mvars>>

\* PlaywrightFetcher.scrape, line 112
PlaywrightReturn ==
    /\ s_pc = "select" /\ s_self.kind = "playwright"
    /\ s_i > Len(s_selectors)
    /\ s_out' = Returned(ScrapeResult(s_acc.img_urls, Join(s_acc.text_parts)))
    /\ s_pc' = "finally"
    /\ UNCHANGED <<s_self, s_selectors, s_dom, s_resp, s_acc, s_i, s_browser,
                   s_log, s_past>>
    /\ UNCHANGED <<cvars, ovars, rvars, fvars, kvars, mvars>>

\* browser.close()
CloseBrowser(b) == [b EXCEPT !.state = "closed", !.closes = @ + 1]

\* browser.close() after the yield, with no try/finally around the yield
CloseOnReturnOnly ==
    /\ s_pc = "finally"
    /\ s_browser' = ExitPlaywright(IF s_out.kind = "returned"
                                   THEN CloseBrowser(s_browser) ELSE s_browser)
    /\ s_log' = Append(s_log, PageOp("close", 0, ""))
    /\ s_pc' = "done"
    /\ UNCHANGED <<s_self, s_selectors, s_dom, s_resp, s_acc, s_i, s_out, s_past>>
    /\ UNCHANGED <<cvars, ovars, rvars, fvars, kvars, mvars>>

\* _get_page, lines 37-38: the finally, on return and on exception alike
Finally ==
    /\ s_pc = "finally"
    /\ s_browser' = ExitPlaywright(CloseBrowser(s_browser))
    /\ s_log' = Append(s_log, PageOp("close", 0, ""))
    /\ s_pc' = "done"
    /\ UNCHANGED <<s_self, s_selectors, s_dom, s_resp, s_acc, s_i, s_out, s_past>>
    /\ UNCHANGED <<cvars, ovars, rvars, fvars, kvars, mvars>>

\* the call is over: its frame is gone, the browser it used is the caller's
\* to find open or closed
ScrapeExit ==
    /\ s_pc = "done"
    /\ s_past' = IF s_browser.state = "none" THEN s_past ELSE s_past \cup {s_browser}
    /\ s_pc' = "idle"
    /\ s_self' = NoFetcher
    /\ s_selectors' = <<>>
    /\ s_dom' = <<>>
    /\ s_resp' = NoResponse
    /\ s_acc' = NoAcc
    /\ s_i' = 1
    /\ s_browser' = NoBrowser
    /\ s_log' = <<>>
    /\ s_out' = Running
    /\ UNCHANGED <<cvars, ovars, rvars, fvars, kvars, mvars>>

NextScrape ==
    \/ ScrapeCall
    \/ RequestsGet
    \/ RequestsSelect
    \/ RequestsReturn
    \/ GetPage
    \/ Goto
    \/ WaitForTimeout
    \/ CheckStatus
    \/ PlaywrightSelect
    \/ PlaywrightReturn
    \/ Finally
    \/ ScrapeExit

SpecScrape == InitScrape /\ [][NextScrape]_vars

-----------------------------------------------------------------------------
(* image_to_text, pass by pass, and the block _scrape_to_text makes of it *)

\* on_white, on_black, r_ch, g_ch, b_ch
Variants == <<"on_white", "on_black", "r_ch", "g_ch", "b_ch">>

\* what pytesseract.image_to_string may read in one variant
RawTexts ==
    {<<>>,
     <<" ", "A", "b", " ", NL, NL, "C", NL>>,
     <<"a", "b", NL, " ", " ", NL, "B">>,
     <<"c", NL, "A", "b", NL>>}

InitOcr == CommandAtRest /\ ScrapeAtRest /\ OcrAtRest /\ ResultsAtRest
    /\ ImageAtRest /\ CacheAtRest /\ MainAtRest

\* _scrape_to_text, line 93: image_to_text(image) is called
OcrCall ==
    /\ o_pc = "idle"
    /\ \E readable \in BOOLEAN : o_image' = [readable |-> readable]
    /\ o_pc' = "composite"
    /\ UNCHANGED <<o_v, o_acc, o_log, o_out, o_block>>
    /\ UNCHANGED <<cvars, svars, rvars, fvars, kvars, mvars>>

\* image_to_text, lines 154-167: the five variants are made, which reads the
\* pixels
Composite ==
    /\ o_pc = "composite"
    /\ IF o_image.readable
       THEN o_pc' = "ocr" /\ o_out' = o_out
       ELSE o_pc' = "done" /\ o_out' = Raised("OSError")
    /\ UNCHANGED <<o_image, o_v, o_acc, o_log, o_block>>
    /\ UNCHANGED <<cvars, svars, rvars, fvars, kvars, mvars>>

\* image_to_text, lines 169-178: one turn of the loop over variants
OcrPass ==
    /\ o_pc = "ocr"
    /\ o_v <= Len(Variants)
    /\ \E raw \in RawTexts :
         /\ o_log' = Append(o_log, [variant |-> Variants[o_v], raw |-> raw])
         /\ o_acc' = VariantLines(o_acc, SplitLines(ocr_variant(raw)))
    /\ o_v' = o_v + 1
    /\ UNCHANGED <<o_pc, o_image, o_out, o_block>>
    /\ UNCHANGED <<cvars, svars, rvars, fvars, kvars, mvars>>

\* the same, returning as soon as some variant gave text
OcrReturnOnceFound ==
    /\ o_pc = "ocr"
    /\ o_v > Len(Variants) \/ o_acc.all_lines # <<>>
    /\ o_out' = Returned(Join(o_acc.all_lines))
    /\ o_pc' = "done"
    /\ UNCHANGED <<o_image, o_v, o_acc, o_log, o_block>>
    /\ UNCHANGED <<cvars, svars, rvars, fvars, kvars, mvars>>

\* image_to_text, line 180
OcrReturn ==
    /\ o_pc = "ocr"
    /\ o_v > Len(Variants)
    /\ o_out' = Returned(Join(o_acc.all_lines))
    /\ o_pc' = "done"
    /\ UNCHANGED <<o_image, o_v, o_acc, o_log, o_block>>
    /\ UNCHANGED <<cvars, svars, rvars, fvars, kvars, mvars>>

\* _scrape_to_text, lines 95-100: the text's lines join those of the images
\* before; image_to_text's locals are gone
MergeIntoBlock ==
    /\ o_pc = "done" /\ o_out.kind = "returned"
    /\ o_block' = MergeLines(o_block, SplitLines(o_out.val))
    /\ o_pc' = "idle"
    /\ o_image' = [readable |-> TRUE]
    /\ o_v' = 1
    /\ o_acc' = NoLines
    /\ o_log' = <<>>
    /\ o_out' = Running
    /\ UNCHANGED <<cvars, svars, rvars, fvars, kvars, mvars>>

NextOcr ==
    \/ OcrCall
    \/ Composite
    \/ OcrPass
    \/ OcrReturn
    \/ MergeIntoBlock

SpecOcr == InitOcr /\ [][NextOcr]_vars

-----------------------------------------------------------------------------
(* ScrapeResult instances and the lists they refer to *)

InitResult == CommandAtRest /\ ScrapeAtRest /\ OcrAtRest /\ ResultsAtRest
    /\ ImageAtRest /\ CacheAtRest /\ MainAtRest

\* a default that is one list object made once, shared by all instances
NewDefaultShared ==
    /\ Len(r_inst) < MaxInstances
    /\ r_heap' = IF r_heap = <<>> THEN <<<<>>>> ELSE r_heap
    /\ r_inst' = Append(r_inst, [img_urls |-> 1, element_text |-> <<>>,
                                  by |-> "default"])
    /\ r_hist' = Append(r_hist, <<>>)
    /\ UNCHANGED <<cvars, svars, ovars, fvars, kvars, mvars>>

\* ScrapeResult(): field(default_factory=list) makes a new list for the
\* instance
NewDefault ==
    /\ Len(r_inst) < MaxInstances
    /\ r_heap' = Append(r_heap, <<>>)
    /\ r_inst' = Append(r_inst, [img_urls |-> Len(r_heap) + 1, element_text |-> <<>>,
                                  by |-> "default"])
    /\ r_hist' = Append(r_hist, <<>>)
    /\ UNCHANGED <<cvars, svars, ovars, fvars, kvars, mvars>>

\* ScrapeResult(img_urls=img_urls, element_text=...) as the backends call it,
\* with the list they built
NewGiven ==
    /\ Len(r_inst) < MaxInstances
    /\ \E q \in UniqueUrlLists, t \in ElementTexts :
         /\ r_heap' = Append(r_heap, q)
         /\ r_inst' = Append(r_inst, [img_urls |-> Len(r_heap) + 1, element_text |-> t,
                                       by |-> "given"])
         /\ r_hist' = Append(r_hist, q)
    /\ UNCHANGED <<cvars, svars, ovars, fvars, kvars, mvars>>

\* r.img_urls.append(x)
AppendUrl ==
    /\ \E i \in 1..Len(r_inst), x \in Urls :
         /\ Len(r_heap[r_inst[i].img_urls]) < MaxUrls
         /\ r_heap' = [r_heap EXCEPT ![r_inst[i].img_urls] = Append(@, x)]
         /\ r_hist' = [r_hist EXCEPT ![i] = Append(@, x)]
    /\ UNCHANGED r_inst
    /\ UNCHANGED <<cvars, svars, ovars, fvars, kvars, mvars>>

NextResult ==
    \/ NewDefault
    \/ NewGiven
    \/ AppendUrl

SpecResult == InitResult /\ [][NextResult]_vars

-----------------------------------------------------------------------------
(* fetch_image and _is_svg, on response bodies given byte by byte *)

SvgTag == <<"<", "s", "v", "g">>

XmlDecl == <<"<", "?", "x", "m", "l">>

Spaces(n) == [i \in 1..n |-> " "]

Filler(n) == [i \in 1..n |-> "x"]

\* bodies with the tag, the declaration or neither, behind leading
\* whitespace and filling of lengths around the two windows of _is_svg
Bodies ==
    {Spaces(k) \o pre \o Filler(m) \o tag :
        k \in {0, 4, HeaderBytes - 4, HeaderBytes - 3},
        pre \in {<<>>, XmlDecl},
        m \in {0, 10, HeaderBytes - 9, HeaderBytes - 8, XmlWindow - 9, XmlWindow - 8},
        tag \in {<<>>, SvgTag, <<"<", "h", "t", "m">>}}

\* data[:n]
Prefix(data, n) == SubSeq(data, 1, IF Len(data) < n THEN Len(data) ELSE n)

\* bytes.startswith
StartsWith(data, p) == Len(data) >= Len(p) /\ SubSeq(data, 1, Len(p)) = p

\* p in data
Contains(data, p) ==
    \E i \in 1..(Len(data) - Len(p) + 1) : SubSeq(data, i, i + Len(p) - 1) = p

\* bytes.lstrip(): data from its first byte that is no whitespace
lstrip(data) ==
    IF \A i \in 1..Len(data) : data[i] \in Whitespace THEN <<>>
    ELSE LET k == CHOOSE i \in 1..Len(data) :
                      data[i] \notin Whitespace /\ \A j \in 1..(i - 1) : data[j] \in Whitespace
         IN  SubSeq(data, k, Len(data))

\* _is_svg
is_svg(data) ==
    LET header == lstrip(Prefix(data, HeaderBytes))
    IN  \/ StartsWith(header, SvgTag)
        \/ StartsWith(header, XmlDecl) /\ Contains(Prefix(header, XmlWindow), SvgTag)

\* what requests.get(url) answers to fetch_image
ImageResponses ==
    {[net |-> "ConnectionError", status |-> 0, body |-> <<>>],
     [net |-> "Timeout", status |-> 0, body |-> <<>>],
     [net |-> "ok", status |-> 404, body |-> SvgTag]}
    \cup {[net |-> "ok", status |-> 200, body |-> b] : b \in Bodies}

ImageOp(op, n) == [op |-> op, n |-> n]

InitImage == CommandAtRest /\ ScrapeAtRest /\ OcrAtRest /\ ResultsAtRest
    /\ ImageAtRest /\ CacheAtRest /\ MainAtRest

\* fetcher.fetch_image(url) is called
FetchImageCall ==
    /\ f_pc = "idle"
    /\ \E f \in ScrapeFetchers : f_self' = f
    /\ f_pc' = "get"
    /\ UNCHANGED <<f_resp, f_svg, f_log, f_out>>
    /\ UNCHANGED <<cvars, svars, ovars, rvars, kvars, mvars>>

\* lines 69-70 without raise_for_status
ImageGetAnyStatus ==
    /\ f_pc = "get"
    /\ \E resp \in ImageResponses :
         /\ f_resp' = resp
         /\ IF resp.net # "ok"
            THEN f_out' = Raised(resp.net) /\ f_pc' = "done"
            ELSE f_out' = f_out /\ f_pc' = "detect"
    /\ f_log' = Append(f_log, ImageOp("get", f_self.timeout))
    /\ UNCHANGED <<f_self, f_svg>>
    /\ UNCHANGED <<cvars, svars, ovars, rvars, kvars, mvars>>

\* fetch_image, lines 69-70
ImageGet ==
    /\ f_pc = "get"
    /\ \E resp \in ImageResponses :
         /\ f_resp' = resp
         /\ IF resp.net # "ok"
            THEN f_out' = Raised(resp.net) /\ f_pc' = "done"
            ELSE IF resp.status >= 400
            THEN f_out' = Raised("HTTPError") /\ f_pc' = "done"
            ELSE f_out' = f_out /\ f_pc' = "detect"
    /\ f_log' = Append(f_log, ImageOp("get", f_self.timeout))
    /\ UNCHANGED <<f_self, f_svg>>
    /\ UNCHANGED <<cvars, svars, ovars, rvars, kvars, mvars>>

\* fetch_image, line 71
DetectSvg ==
    /\ f_pc = "detect"
    /\ f_svg' = is_svg(f_resp.body)
    /\ f_pc' = "decode"
    /\ UNCHANGED <<f_self, f_resp, f_log, f_out>>
    /\ UNCHANGED <<cvars, svars, ovars, rvars, kvars, mvars>>

\* fetch_image, lines 72-77: the decoder takes the body or rejects it
Decode ==
    /\ f_pc = "decode"
    /\ LET via == IF f_svg THEN "svg_to_pil" ELSE "Image.open"
       IN  /\ f_log' = Append(f_log, ImageOp(via, Len(f_resp.body)))
           /\ \/ f_out' = Returned(<<via>>)
              \/ f_out' = Raised(IF f_svg THEN "ParseError" ELSE "UnidentifiedImageError")
    /\ f_pc' = "done"
    /\ UNCHANGED <<f_self, f_resp, f_svg>>
    /\ UNCHANGED <<cvars, svars, ovars, rvars, kvars, mvars>>

NextImage ==
    \/ FetchImageCall
    \/ ImageGet
    \/ DetectSvg
    \/ Decode

SpecImage == InitImage /\ [][NextImage]_vars

-----------------------------------------------------------------------------
(* cache.py *)

\* ItemWrapper.from_object(data), kept with the topic and the safe flag of
\* the call that stored it
Item(data, clock, topic, safe) ==
    [data |-> data, timestamp |-> clock, topic |-> topic, safe |-> safe]

\* dumped_items.sort(key=lambda item: item.timestamp, reverse=True)
RECURSIVE SortNewestFirst(_)
SortNewestFirst(items) ==
    IF items = <<>> THEN <<>>
    ELSE LET k == CHOOSE i \in 1..Len(items) :
                      \A j \in 1..Len(items) :
                          \/ items[j].timestamp < items[i].timestamp
                          \/ items[j].timestamp = items[i].timestamp /\ i <= j
         IN  <<items[k]>>
             \o SortNewestFirst(SubSeq(items, 1, k - 1) \o SubSeq(items, k + 1, Len(items)))

\* every item of every topic cache, whatever the topic asked for
DumpEverything(caches, topic) ==
    LET RECURSIVE All(_)
        All(ts) == IF ts = {} THEN <<>>
                   ELSE LET t == CHOOSE x \in ts : TRUE
                        IN  caches[t].items \o All(ts \ {t})
    IN  SortNewestFirst(All(SanTopics))

\* Cache.dump_topic
dump_topic(caches, topic) ==
    LET sanitied_topic == sanitize_topic(topic)
    IN  IF ~caches[sanitied_topic].open THEN <<>>
        ELSE SortNewestFirst(caches[sanitied_topic].items)

\* add_to_topic without the test of lines 52-57
AddAlways(caches, clock, topic, data, safe) ==
    LET sanitied_topic == sanitize_topic(topic)
    IN  [ret |-> TRUE,
         caches |-> [caches EXCEPT ![sanitied_topic] =
                        [open |-> TRUE,
                         items |-> Append(@.items, Item(data, clock + 1, topic, safe))]]]

\* Cache.add_to_topic: the caches after the call and the value returned
add_to_topic(caches, clock, topic, data, safe) ==
    LET sanitied_topic == sanitize_topic(topic)
        opened == [caches EXCEPT ![sanitied_topic].open = TRUE]
        existing_items == dump_topic(opened, topic)
    IN  IF safe /\ \E i \in 1..Len(existing_items) : DataEq(existing_items[i].data, data)
        THEN [ret |-> FALSE, caches |-> opened]
        ELSE [ret |-> TRUE,
              caches |-> [opened EXCEPT ![sanitied_topic].items =
                             Append(@, Item(data, clock + 1, topic, safe))]]

CallOf(op, topic, data, safe, ret, dumped) ==
    [op |-> op, topic |-> topic, data |-> data, safe |-> safe, ret |-> ret,
     dumped |-> dumped, before |-> k_caches]

InitCache == CommandAtRest /\ ScrapeAtRest /\ OcrAtRest /\ ResultsAtRest
    /\ ImageAtRest /\ CacheAtRest /\ MainAtRest

\* cache.add_to_topic(topic, data, safe)
AddToTopic ==
    /\ k_clock < MaxItems
    /\ \E topic \in Topics, data \in Data, safe \in BOOLEAN :
         LET r == add_to_topic(k_caches, k_clock, topic, data, safe)
         IN  /\ k_caches' = r.caches
             /\ k_clock' = IF r.ret THEN k_clock + 1 ELSE k_clock
             /\ k_last' = CallOf("add", topic, data, safe, r.ret, <<>>)
    /\ UNCHANGED <<cvars, svars, ovars, rvars, fvars, mvars>>

\* cache.dump_topic(topic)
DumpTopic ==
    /\ \E topic \in Topics :
         k_last' = CallOf("dump", topic, "", FALSE, FALSE, dump_topic(k_caches, topic))
    /\ UNCHANGED <<k_caches, k_clock>>
    /\ UNCHANGED <<cvars, svars, ovars, rvars, fvars, mvars>>

NextCache ==
    \/ AddToTopic
    \/ DumpTopic

SpecCache == InitCache /\ [][NextCache]_vars

-----------------------------------------------------------------------------
(* __main__.py *)

\* what the directory given with --cache holds when Cache.__init__ lists it:
\* nothing, or the topic cache an earlier run left
LoadedCaches ==
    {EmptyCaches,
     [EmptyCaches EXCEPT ![<<"a", "b">>] =
         [open |-> TRUE, items |-> <<Item("x", 0, <<"a", "b">>, TRUE)>>]]}

InitMain == CommandAtRest /\ ScrapeAtRest /\ OcrAtRest /\ ResultsAtRest
    /\ ImageAtRest /\ CacheAtRest /\ MainAtRest

\* args = parser.parse_args()
MainStart ==
    /\ m_pc = "idle"
    /\ \E cache \in BOOLEAN, skip_search \in BOOLEAN, query \in Topics :
         m_args' = [cache |-> cache, skip_search |-> skip_search, query |-> query]
    /\ m_pc' = "cache"
    /\ UNCHANGED <<m_dir, m_todo, m_log>>
    /\ UNCHANGED <<cvars, svars, ovars, rvars, fvars, kvars>>

\* cache = Cache(args.cache), or inside the with block Cache(Path(temp_cache_dir))
MakeCache ==
    /\ m_pc = "cache"
    /\ m_dir' = "exists"
    /\ IF m_args.cache
       THEN /\ k_caches' \in LoadedCaches
            /\ m_pc' = "search"
       ELSE /\ k_caches' = EmptyCaches
            /\ m_pc' = "with"
    /\ UNCHANGED <<m_args, m_todo, m_log, k_clock, k_last>>
    /\ UNCHANGED <<cvars, svars, ovars, rvars, fvars>>

\* the end of the with block: TemporaryDirectory.__exit__ removes the directory
ExitWith ==
    /\ m_pc = "with"
    /\ m_dir' = "removed"
    /\ m_pc' = "search"
    /\ UNCHANGED <<m_args, m_todo, m_log>>
    /\ UNCHANGED <<cvars, svars, ovars, rvars, fvars, kvars>>

\* if not args.skip_search: results = searcher.search()
Search ==
    /\ m_pc = "search"
    /\ IF m_args.skip_search
       THEN m_todo' = <<>>
       ELSE \E n \in 0..MaxItems : m_todo' \in [1..n -> Data]
    /\ m_pc' = "loop"
    /\ UNCHANGED <<m_args, m_dir, m_log>>
    /\ UNCHANGED <<cvars, svars, ovars, rvars, fvars, kvars>>

\* for result in results: cache.add_to_topic(args.query, result, safe=True);
\* the call makes the topic directory and its parents
AddResult ==
    /\ m_pc = "loop"
    /\ m_todo # <<>>
    /\ LET r == add_to_topic(k_caches, k_clock, m_args.query, Head(m_todo), TRUE)
       IN  /\ k_caches' = r.caches
           /\ k_clock' = IF r.ret THEN k_clock + 1 ELSE k_clock
           /\ k_last' = CallOf("add", m_args.query, Head(m_todo), TRUE, r.ret, <<>>)
    /\ m_log' = Append(m_log, [op |-> "add", dir |-> m_dir])
    /\ m_dir' = IF m_dir = "removed" THEN "recreated" ELSE m_dir
    /\ m_todo' = Tail(m_todo)
    /\ UNCHANGED <<m_pc, m_args>>
    /\ UNCHANGED <<cvars, svars, ovars, rvars, fvars>>

\* for item in cache.dump_topic(args.query), and main returns
Dump ==
    /\ m_pc = "loop"
    /\ m_todo = <<>>
    /\ k_last' = CallOf("dump", m_args.query, "", FALSE, FALSE, dump_topic(k_caches, m_args.query))
    /\ m_log' = Append(m_log, [op |-> "dump", dir |-> m_dir])
    /\ m_pc' = "done"
    /\ UNCHANGED <<m_args, m_dir, m_todo, k_caches, k_clock>>
    /\ UNCHANGED <<cvars, svars, ovars, rvars, fvars>>

NextMain ==
    \/ MainStart
    \/ MakeCache
    \/ ExitWith
    \/ Search
    \/ AddResult
    \/ Dump

SpecMain == InitMain /\ [][NextMain]_vars

-----------------------------------------------------------------------------
(* Properties *)

Count(q, Test(_)) == Len(SelectSeq(q, Test))

ScrapesOn(f) == Count(calls, LAMBDA c : c.op = "scrape" /\ c.f = f)

Invoked == pc # "idle"

\* the caller gave at least one selector
WithSelectors == Invoked /\ args.selectors.some /\ args.selectors.val # <<>>

\* the caller gave none, or an empty list
WithoutSelectors == Invoked /\ ~WithSelectors

FirstAttemptOver == Len(attempts) >= 1

\* the error the attempt in progress ended with: the page load's, or the
\* OCR's when the page had loaded
ErrorOfLastAttempt ==
    IF calls[Len(calls)].op = "scrape" THEN calls[Len(calls)].out ELSE "OSError"

\* C1: selector mode, light backend first: once the light attempt has raised
\* an error, the command has ended by raising that very error, one fetcher
\* was constructed and no call was made on any other, whatever the fallback
\* flag says.
C1_LightErrorPropagates ==
    (WithSelectors /\ FirstAttemptOver /\ fetchers[1].kind = "requests"
        /\ attempts[1] = "raised")
    => /\ pc = "done"
       /\ outcome = Raised(ErrorOfLastAttempt)
       /\ Len(fetchers) = 1
       /\ \A i \in 1..Len(calls) : calls[i].f = 1
       /\ attempts = <<"raised">>

C1_Witness ==
    /\ WithSelectors /\ args.fallback_to_playwright /\ ~args.use_playwright
    /\ attempts = <<"raised">>
    /\ pc = "done"
    /\ outcome = Raised("HTTPError")

\* C2: selector mode, fallback requested, light backend selected: when the
\* command has ended and every attempt it made found nothing, it ended with
\* the no-match error after exactly two attempts: a light fetcher, then a
\* heavy one, each scraped exactly once.
C2_BothEmptyRaises ==
    (pc = "done" /\ WithSelectors
        /\ args.fallback_to_playwright /\ ~args.use_playwright
        /\ FirstAttemptOver /\ \A i \in 1..Len(attempts) : attempts[i] = "empty")
    => /\ outcome = Raised(NoMatchMsg)
       /\ Len(attempts) = 2
       /\ Len(fetchers) = 2
       /\ fetchers[1].kind = "requests" /\ fetchers[2].kind = "playwright"
       /\ ScrapesOn(1) = 1 /\ ScrapesOn(2) = 1
       /\ Count(calls, LAMBDA c : c.op = "scrape") = 2

C2_Witness ==
    /\ pc = "done"
    /\ attempts = <<"empty", "empty">>
    /\ outcome = Raised(NoMatchMsg)

\* C3: selector mode: a second fetcher exists only if the first attempt was
\* empty, fallback was requested and the light backend was selected, and it
\* is then the heavy one; when the command has ended after a first attempt,
\* two attempts were made if and only if those three conditions held, and
\* otherwise exactly one fetcher was constructed and scraped exactly once.
C3_SecondAttemptIff ==
    LET escalates == /\ FirstAttemptOver /\ attempts[1] = "empty"
                     /\ args.fallback_to_playwright /\ ~args.use_playwright
    IN  WithSelectors =>
        /\ Len(fetchers) <= 2 /\ Len(attempts) <= Len(fetchers)
        /\ Len(fetchers) = 2 => escalates /\ fetchers[2].kind = "playwright"
        /\ \A f \in 1..Len(fetchers) : ScrapesOn(f) <= 1
        /\ (pc = "done" /\ FirstAttemptOver) =>
              IF escalates
              THEN Len(fetchers) = 2 /\ Len(attempts) = 2
                   /\ ScrapesOn(1) = 1 /\ ScrapesOn(2) = 1
              ELSE Len(fetchers) = 1 /\ Len(attempts) = 1 /\ ScrapesOn(1) = 1
                   /\ \A i \in 1..Len(calls) : calls[i].f = 1

C3_Witness ==
    /\ pc = "done" /\ WithSelectors
    /\ args.use_playwright /\ args.fallback_to_playwright
    /\ attempts = <<"empty">>
    /\ Len(fetchers) = 1

\* every fetched image gave no OCR text
NoOcrText(imgs) ==
    \A i \in 1..Len(imgs) : image_to_text(imgs[i]).ok /\ image_to_text(imgs[i]).val = <<>>

\* C4: an attempt whose images gave no OCR text and whose element text is
\* blank counts as empty (None), also when images were fetched; and in
\* selector mode the command never returns the empty string.
C4_NoBlockIsEmpty ==
    /\ (pc = "decide" /\ NoOcrText(images) /\ Strip(result.element_text) = <<>>)
          => text = None
    /\ (pc = "done" /\ WithSelectors /\ outcome.kind = "returned")
          => outcome.val # <<>>

\* C5: one fetched image and element text "Cap": the attempt's text is the
\* OCR text, a newline and "Cap" when the OCR text is not empty, and "Cap"
\* alone when it is.
C5_OcrThenCaption ==
    (pc = "decide" /\ Len(images) = 1 /\ result.element_text = <<"C", "a", "p">>)
    => LET ocr == image_to_text(images[1]).val
       IN  text = Some(IF ocr # <<>>
                       THEN ocr \o <<NL>> \o <<"C", "a", "p">>
                       ELSE <<"C", "a", "p">>)

\* C6: a nonzero settle delay with neither the heavy backend nor fallback:
\* once validation has run the command has ended with the configuration
\* error, no fetcher was constructed and no call was made.
C6_ConfigErrorFirst ==
    (Invoked /\ args.page_wait_for_timeout # 0
        /\ ~args.use_playwright /\ ~args.fallback_to_playwright)
    => /\ fetchers = <<>> /\ calls = <<>> /\ attempts = <<>>
       /\ pc \in {"validate", "done"}
       /\ pc = "done" => outcome = Raised(PageWaitMsg)

C6_Witness ==
    /\ pc = "done"
    /\ args.page_wait_for_timeout # 0
    /\ WithSelectors
    /\ outcome = Raised(PageWaitMsg)
    /\ fetchers = <<>>

C8_DirectImage ==
    WithoutSelectors =>
    /\ Len(fetchers) <= 1 /\ attempts = <<>>
    /\ \A i \in 1..Len(calls) : calls[i].op = "fetch_image"
    /\ pc \in {"validate", "make_fetcher", "direct", "done"}
    /\ (pc = "done" /\ outcome # Raised(PageWaitMsg)) =>
          /\ Len(fetchers) = 1
          /\ Len(calls) = 1
          /\ calls[1].url = args.url /\ calls[1].f = 1
          /\ outcome =
                IF calls[1].out \in Images
                THEN LET t == image_to_text(calls[1].out)
                     IN  IF t.ok THEN Returned(t.val) ELSE Raised(t.exc)
                ELSE Raised(calls[1].out)

C8_Witness ==
    /\ pc = "done" /\ WithoutSelectors
    /\ args.selectors = Some(<<>>)
    /\ args.fallback_to_playwright
    /\ calls = <<Call("fetch_image", 1, PageUrl, "imgHi")>>
    /\ outcome = Returned(<<"A", "b", NL, "C">>)

\* the images of the fetch_image calls that succeeded, in call order
RECURSIVE Successes(_)
Successes(log) ==
    IF log = <<>> THEN <<>>
    ELSE (IF Head(log).out \in Images THEN <<Head(log).out>> ELSE <<>>)
         \o Successes(Tail(log))

\* C9: fetch_images calls fetch_image on the URLs of its argument, once
\* each, in order; it never raises; the images it holds and returns are those
\* of the calls that succeeded, in call order.
C9_SuccessesInOrder ==
    /\ outcome.kind # "raised"
    /\ Len(calls) = idx - 1 /\ idx <= Len(img_urls) + 1
    /\ \A i \in 1..Len(calls) :
          calls[i].op = "fetch_image" /\ calls[i].url = img_urls[i]
    /\ images = Successes(calls)
    /\ pc = "done" => /\ Len(calls) = Len(img_urls)
                      /\ outcome = Returned(Successes(calls))

C9_Witness ==
    /\ pc = "done"
    /\ Len(calls) = 3
    /\ calls[1].out = "HTTPError" /\ calls[2].out = "imgHi" /\ calls[3].out = "ConnectionError"
    /\ outcome = Returned(<<"imgHi">>)

\* C10: fetch_images of the empty list returns the empty list and makes no
\* call.
C10_EmptyListNoCall ==
    (img_urls = <<>>)
    => /\ calls = <<>>
       /\ images = <<>>
       /\ pc = "done" => outcome = Returned(<<>>)

C10_Witness ==
    /\ pc = "done"
    /\ img_urls = <<>>
    /\ outcome = Returned(<<>>)

-----------------------------------------------------------------------------
(* scrape: the URLs it returns *)

RECURSIVE FirstOccurrences(_)
FirstOccurrences(q) ==
    IF q = <<>> THEN <<>>
    ELSE LET front == FirstOccurrences(SubSeq(q, 1, Len(q) - 1))
             last == q[Len(q)]
         IN  IF \E i \in 1..(Len(q) - 1) : q[i] = last THEN front ELSE Append(front, last)

NoDuplicates(q) == \A i, j \in 1..Len(q) : q[i] = q[j] => i = j

\* the absolute URL an element refers to, if it refers to one
OwnUrl(n) ==
    IF n.src \notin {Absent, ""} THEN <<urljoin(PageUrl, n.src)>>
    ELSE IF n.data_src \notin {Absent, ""} THEN <<urljoin(PageUrl, n.data_src)>>
    ELSE <<>>

RECURSIVE UrlsOf(_)
UrlsOf(nodes) ==
    IF nodes = <<>> THEN <<>>
    ELSE LET n == Head(nodes)
         IN  OwnUrl(n)
             \o (IF n.kids = <<>> THEN <<>> ELSE UrlsOf(n.kids))
             \o UrlsOf(Tail(nodes))

\* every image reference the first k selectors come across, in the order of
\* the traversal: selector by selector, element by element, the element
\* before the images nested in it
RECURSIVE Discovered(_, _, _)
Discovered(dom, selectors, k) ==
    IF k = 0 THEN <<>>
    ELSE Discovered(dom, selectors, k - 1) \o UrlsOf(select(dom, selectors[k]))

\* C11: on either backend the URLs scrape has collected, and those it
\* returns, hold no URL twice: they are the URLs the traversal came across,
\* each at the place of its first discovery.
C11_UrlsOnceAtFirstDiscovery ==
    /\ s_pc \in {"select", "finally", "done"} /\ s_i >= 1 =>
         /\ NoDuplicates(s_acc.img_urls)
         /\ s_acc.img_urls = FirstOccurrences(Discovered(s_dom, s_selectors, s_i - 1))
    /\ s_pc = "done" /\ s_out.kind = "returned" =>
         /\ NoDuplicates(s_out.val.img_urls)
         /\ s_out.val.img_urls =
              FirstOccurrences(Discovered(s_dom, s_selectors, Len(s_selectors)))

\* a URL met under two selectors, twice under one, and both nested and matched
C11_Witness ==
    /\ s_pc = "done" /\ s_out.kind = "returned"
    /\ s_self.kind = "requests"
    /\ s_selectors = <<".b", ".a">>
    /\ Len(Discovered(s_dom, s_selectors, 2)) >= 5
    /\ s_out.val.img_urls = <<1, 2>>

-----------------------------------------------------------------------------
(* scrape on the browser backend: the browser *)

ClosedOnce(b) == b.state = "closed" /\ (b.yielded => b.closes = 1) /\ b.closes <= 1

\* C12: when a scrape call of the browser backend is over, whether it
\* returned or raised from navigation, from the status check or from the
\* selectors, the browser whose page it was given has been closed exactly
\* once; no browser of any earlier call is open.
C12_BrowserClosedOnce ==
    /\ s_pc = "done" /\ s_browser.state # "none" => ClosedOnce(s_browser)
    /\ s_pc = "done" /\ s_self.kind = "playwright" /\ s_resp # NoResponse
         => s_browser.yielded /\ s_browser.closes = 1
    /\ s_pc = "idle" => s_browser.state = "none"
    /\ \A b \in s_past : ClosedOnce(b)

\* a call that raised while processing the selectors, after an earlier call
C12_Witness ==
    /\ s_pc = "done"
    /\ s_out = Raised("PlaywrightError")
    /\ s_i = 2 /\ s_log[Len(s_log) - 1].op = "query_selector_all"
    /\ s_browser = [state |-> "closed", closes |-> 1, yielded |-> TRUE]
    /\ s_past # {}

-----------------------------------------------------------------------------
(* scrape: the page request *)

OpsNamed(log, op) == {i \in DOMAIN log : log[i].op = op}

\* C17: scrape on the requests backend makes one GET of the page, with the
\* fetcher's timeout; when the request fails or the status is not a success
\* the call raises that error and returns no ScrapeResult.
C17_OneGetErrorsPropagate ==
    s_self.kind = "requests" /\ s_pc \in {"select", "done"} =>
        /\ OpsNamed(s_log, "get") = {1}
        /\ s_log[1].n = s_self.timeout
        /\ s_resp.net # "ok" => s_pc = "done" /\ s_out = Raised(s_resp.net)
        /\ s_resp.net = "ok" /\ s_resp.status >= 400
             => s_pc = "done" /\ s_out = Raised("HTTPError")
        /\ s_out.kind = "returned" => s_resp = [net |-> "ok", status |-> 200]

C17_Witness ==
    /\ s_self.kind = "requests" /\ s_pc = "done"
    /\ s_resp = [net |-> "ok", status |-> 404]
    /\ s_out = Raised("HTTPError")
    /\ s_selectors # <<>> /\ s_dom # <<>>
    /\ s_acc = NoAcc

WaitedOrQueried ==
    OpsNamed(s_log, "wait_for_timeout") \cup OpsNamed(s_log, "query_selector_all") # {}

\* C20: on the browser backend, once navigation has answered with a failing
\* status, the call ends with the error of that status without having
\* waited the settle delay and without having queried a selector.
C20_StatusErrorBeforeWait ==
    s_self.kind = "playwright" /\ s_resp.net = "ok" /\ s_resp.status >= 400 =>
        /\ ~WaitedOrQueried
        /\ s_pc = "done" => s_out = Raised("RuntimeError: HTTP 404")

-----------------------------------------------------------------------------
(* image_to_text *)

VariantsOf(log) == [i \in DOMAIN log |-> log[i].variant]

\* C13: image_to_text makes its OCR passes in the order white, black, R, G,
\* B, whatever the earlier passes read: a call that returns has made exactly
\* these five.
C13_FivePassesInOrder ==
    /\ o_pc = "ocr" => VariantsOf(o_log) = SubSeq(Variants, 1, o_v - 1)
    /\ o_out.kind = "returned" =>
         /\ VariantsOf(o_log) = Variants
         /\ Len(o_log) = 5

\* text was read in the first pass already, and in none after it
C13_Witness ==
    /\ o_pc = "done" /\ o_out.kind = "returned"
    /\ o_log[1].raw # <<>>
    /\ \A i \in 2..Len(o_log) : o_log[i].raw = <<>>
    /\ Len(o_log) = 5

\* the lines of the passes of a log, stripped, in pass order then line order
RECURSIVE StrippedLines(_)
StrippedLines(lines) ==
    IF lines = <<>> THEN <<>> ELSE <<Strip(Head(lines))>> \o StrippedLines(Tail(lines))

RECURSIVE ReadLines(_)
ReadLines(log) ==
    IF log = <<>> THEN <<>>
    ELSE ReadLines(SubSeq(log, 1, Len(log) - 1))
         \o SelectSeq(StrippedLines(SplitLines(Strip(log[Len(log)].raw))),
                      LAMBDA l : l # <<>>)

FirstOfItsKey(q, i) == \A j \in 1..(i - 1) : Lower(q[j]) # Lower(q[i])

RECURSIVE FirstByKey(_)
FirstByKey(q) ==
    IF q = <<>> THEN <<>>
    ELSE LET front == FirstByKey(SubSeq(q, 1, Len(q) - 1))
         IN  IF FirstOfItsKey(q, Len(q)) THEN Append(front, q[Len(q)]) ELSE front

\* C14: the lines of image_to_text's result differ pairwise even when case is
\* ignored; every non-blank line some pass read is among them up to case;
\* each has the casing of its first occurrence in pass order, and they stand
\* in the order of these first occurrences.
C14_UniqueFirstOccurrence ==
    o_out.kind = "returned" =>
        LET res == SplitLines(o_out.val)
            read == ReadLines(o_log)
        IN  /\ \A i, j \in 1..Len(res) : Lower(res[i]) = Lower(res[j]) => i = j
            /\ \A i \in 1..Len(read) : \E j \in 1..Len(res) : Lower(res[j]) = Lower(read[i])
            /\ res = FirstByKey(read)

\* "Ab", "ab" and "c", "C" read in different passes
C14_Witness ==
    /\ o_out.kind = "returned"
    /\ o_log[1].raw = <<"c", NL, "A", "b", NL>>
    /\ o_log[2].raw = <<"a", "b", NL, " ", " ", NL, "B">>
    /\ o_log[3].raw = <<" ", "A", "b", " ", NL, NL, "C", NL>>
    /\ SplitLines(o_out.val) = << <<"c">>, <<"A", "b">>, <<"B">> >>

Blank(line) == \A i \in 1..Len(line) : line[i] \in Whitespace

\* C15: no line of image_to_text's result, and no line of the block
\* _scrape_to_text merges the results into, is empty or made of whitespace.
C15_NoBlankLine ==
    /\ \A i \in 1..Len(o_acc.all_lines) : ~Blank(o_acc.all_lines[i])
    /\ o_out.kind = "returned" =>
         \A i \in 1..Len(SplitLines(o_out.val)) : ~Blank(SplitLines(o_out.val)[i])
    /\ \A i \in 1..Len(o_block.all_lines) : ~Blank(o_block.all_lines[i])

\* blank lines were read, text as well, and the block holds the text
C15_Witness ==
    /\ o_pc = "done" /\ o_out.kind = "returned"
    /\ \E i \in 1..Len(o_log) : o_log[i].raw = <<"a", "b", NL, " ", " ", NL, "B">>
    /\ \E i \in 1..Len(o_log) : o_log[i].raw = <<" ", "A", "b", " ", NL, NL, "C", NL>>
    /\ Len(o_block.all_lines) >= 2

-----------------------------------------------------------------------------
(* _scrape_to_text: the lines of all images of one attempt *)

\* the lines of the texts of the images, image by image
RECURSIVE TextLines(_)
TextLines(imgs) ==
    IF imgs = <<>> THEN <<>>
    ELSE SplitLines(image_to_text(Head(imgs)).val) \o TextLines(Tail(imgs))

Readable(imgs) == \A i \in 1..Len(imgs) : image_to_text(imgs[i]).ok

ElementPart == IF Strip(result.element_text) # <<>> THEN <<result.element_text>> ELSE <<>>

\* C16: the OCR block of an attempt holds the lines of the texts of all its
\* fetched images, in image order then line order, each only where it first
\* occurs when case is ignored, in the casing it has there; the block of the
\* attempt on the browser backend after an empty first attempt is made of
\* that attempt's images alone.
C16_OneListPerAttempt ==
    (pc = "decide" /\ images # <<>> /\ Readable(images)) =>
        text = Some(Join(<<Join(FirstByKey(TextLines(images)))>> \o ElementPart))

\* a second attempt whose two images share lines up to case
C16_Witness ==
    /\ pc = "decide" /\ cur = 2
    /\ images = <<"imgHi", "imgLo">>
    /\ text = Some(<<"A", "b", NL, "C", NL, "B">>)

-----------------------------------------------------------------------------
(* timeouts *)

TimedOut(c) == c.out \in {"Timeout", "TimeoutError"}

\* a call whose error fetch_images catches: an image fetch in selector mode
PerImage(c) == c.op = "fetch_image" /\ WithSelectors

\* C18, as stated: whichever network call timed out, the command ends by
\* raising the timeout; it neither returns nor reports that nothing matched.
C18_TimeoutAlwaysRaises ==
    (pc = "done" /\ \E i \in 1..Len(calls) : TimedOut(calls[i]))
    => outcome.kind = "raised" /\ outcome.exc \in {"Timeout", "TimeoutError"}

\* C18, amended: a timeout of the page load (either backend) or of the image
\* fetch of direct mode is the last call made and the error the command
\* raises; a timeout of an image fetch inside fetch_images is never raised.
C18_TimeoutRaisesUnlessPerImage ==
    /\ \A i \in 1..Len(calls) :
         (TimedOut(calls[i]) /\ ~PerImage(calls[i]))
         => /\ i = Len(calls)
            /\ pc = "done" /\ outcome = Raised(calls[i].out)
    /\ (pc = "done" /\ outcome.kind = "raised" /\ outcome.exc \in {"Timeout", "TimeoutError"})
         => ~PerImage(calls[Len(calls)]) /\ calls[Len(calls)].out = outcome.exc

\* the only image timed out, and the command returned the element text
C18_Witness ==
    /\ pc = "done" /\ WithSelectors
    /\ \E i \in 1..Len(calls) : calls[i].op = "fetch_image" /\ calls[i].out = "Timeout"
    /\ images = <<>>
    /\ outcome = Returned(<<"C", "a", "p">>)

-----------------------------------------------------------------------------
(* ScrapeResult *)

ListOf(i) == r_heap[r_inst[i].img_urls]

\* C19: every ScrapeResult instance has a list of its own: the list of an
\* instance holds what it was made with followed by what was appended
\* through that instance, whatever was appended through the others.
C19_OwnList ==
    /\ \A i, j \in 1..Len(r_inst) : r_inst[i].img_urls = r_inst[j].img_urls => i = j
    /\ \A i \in 1..Len(r_inst) : ListOf(i) = r_hist[i]

\* two instances made by default, one appended to, the other still empty
C19_Witness ==
    /\ Len(r_inst) = 2
    /\ r_inst[1].by = "default" /\ r_inst[2].by = "default"
    /\ r_hist = << <<1>>, <<>> >>
    /\ ListOf(1) = <<1>> /\ ListOf(2) = <<>>

-----------------------------------------------------------------------------
(* scrape on the browser backend: navigation and the settle wait *)

\* navigation gave no response or a response of success, and the status test
\* is behind
Loaded ==
    /\ s_self.kind = "playwright"
    /\ s_pc \in {"select", "finally", "done"}
    /\ s_resp \in {[net |-> "null", status |-> 0], [net |-> "ok", status |-> 200]}

\* C21: in a scrape on the browser backend whose page loaded, navigation was
\* given timeout x 1000 ms; with a delay above zero there was one wait, of
\* delay x 1000 ms, after navigation and before every selector query; with
\* any other delay there was none.
C21_OneWaitIffPositive ==
    Loaded =>
        LET gotos == OpsNamed(s_log, "goto")
            waits == OpsNamed(s_log, "wait_for_timeout")
            queries == OpsNamed(s_log, "query_selector_all")
        IN  /\ Cardinality(gotos) = 1
            /\ \A g \in gotos : s_log[g].n = s_self.timeout * 1000
            /\ IF s_self.page_wait_for_timeout > 0
               THEN /\ Cardinality(waits) = 1
                    /\ \A w \in waits :
                         /\ s_log[w].n = s_self.page_wait_for_timeout * 1000
                         /\ \A g \in gotos : g < w
                         /\ \A q \in queries : w < q
               ELSE waits = {}

\* delay 3, timeout 5, two selectors queried after the wait
C21_Witness ==
    /\ Loaded /\ s_pc = "done" /\ s_out.kind = "returned"
    /\ s_self.page_wait_for_timeout = 3 /\ s_self.timeout = 5
    /\ Len(s_selectors) = 2
    /\ s_log[2] = PageOp("goto", 5000, "")
    /\ s_log[3] = PageOp("wait_for_timeout", 3000, "")
    /\ s_log[4].op = "query_selector_all"

-----------------------------------------------------------------------------
(* scrape: order of img_urls *)

\* where x first stands in q
FirstIndex(q, x) == CHOOSE i \in 1..Len(q) : q[i] = x /\ \A j \in 1..(i - 1) : q[j] # x

Range(q) == {q[i] : i \in 1..Len(q)}

\* C22: the URLs scrape returns are those the traversal came across
\* (selectors in the order given, matched elements in document order, an
\* element's own reference before those of the images nested in it), and a
\* URL stands before another exactly when it was come across first.
C22_FirstDiscoveryOrder ==
    (s_pc = "done" /\ s_out.kind = "returned") =>
        LET d == Discovered(s_dom, s_selectors, Len(s_selectors))
            r == s_out.val.img_urls
        IN  /\ Range(r) = Range(d)
            /\ \A i, j \in 1..Len(r) :
                 i < j => FirstIndex(d, r[i]) < FirstIndex(d, r[j])

\* one element that refers to "/b" itself and holds an image of "/a"
C22_Witness ==
    /\ s_pc = "done" /\ s_out.kind = "returned"
    /\ s_self.kind = "requests"
    /\ Len(s_dom) = 1 /\ s_dom[1].src = "/b" /\ s_selectors = <<".a">>
    /\ s_out.val.img_urls = <<2, 1>>

-----------------------------------------------------------------------------
(* scrape: element_text *)

\* the visible text of a matched element as the backend reads it
VisibleText(kind, n) == IF kind = "requests" THEN get_text(n.texts) ELSE Strip(n.inner)

RECURSIVE TextsOf(_, _)
TextsOf(kind, nodes) ==
    IF nodes = <<>> THEN <<>>
    ELSE <<VisibleText(kind, Head(nodes))>> \o TextsOf(kind, Tail(nodes))

\* the matches of the first k selectors, selector by selector, each in
\* document order; an element stands once for every selector it matches
RECURSIVE Matched(_, _, _)
Matched(dom, selectors, k) ==
    IF k = 0 THEN <<>>
    ELSE Matched(dom, selectors, k - 1) \o select(dom, selectors[k])

\* C23: element_text is the texts of the matched elements, match by match
\* in traversal order, those that are empty once trimmed left out, joined by
\* newline: no empty block, the empty string when no match has text, and the
\* text of an element once for every selector that matches it.
C23_TextBlocksInOrder ==
    (s_pc = "done" /\ s_out.kind = "returned") =>
        LET all == TextsOf(s_self.kind, Matched(s_dom, s_selectors, Len(s_selectors)))
            blocks == SelectSeq(all, LAMBDA t : t # <<>>)
        IN  /\ s_out.val.element_text = Join(blocks)
            /\ s_acc.text_parts = blocks
            /\ blocks = <<>> => s_out.val.element_text = <<>>

\* the element with text "U" matched by both selectors, and matches with no
\* text among them
C23_Witness ==
    /\ s_pc = "done" /\ s_out.kind = "returned"
    /\ s_self.kind = "playwright"
    /\ s_selectors = <<".b", ".a">>
    /\ Len(Matched(s_dom, s_selectors, 2)) >= 4
    /\ s_out.val.element_text = <<"U", NL, "U">>

-----------------------------------------------------------------------------
(* scrape: which attribute names the image *)

Usable(v) == v # Absent /\ v # ""

\* the matched elements and the images nested in them
Visited ==
    LET m == Matched(s_dom, s_selectors, Len(s_selectors))
    IN  Range(m) \cup UNION {Range(m[i].kids) : i \in 1..Len(m)}

\* C24: on either backend an element names an image by its src when that is
\* present and not empty, else by its data-src when that is; the URLs
\* returned are these values resolved against the page URL, each once
\* however it was written; a matched element that names no image still has
\* the images nested in it recorded and its text kept.
C24_SrcThenDataSrc ==
    (s_pc = "done" /\ s_out.kind = "returned") =>
        LET r == s_out.val.img_urls
            m == Matched(s_dom, s_selectors, Len(s_selectors))
        IN  /\ Range(r) =
                 {urljoin(PageUrl, n.src) : n \in {v \in Visited : Usable(v.src)}}
                 \cup {urljoin(PageUrl, n.data_src) :
                          n \in {v \in Visited : ~Usable(v.src) /\ Usable(v.data_src)}}
            /\ Cardinality(Range(r)) = Len(r)
            /\ \A i \in 1..Len(m) :
                 (~Usable(m[i].src) /\ ~Usable(m[i].data_src)) =>
                    /\ \A k \in 1..Len(m[i].kids) :
                         Usable(m[i].kids[k].src) =>
                            urljoin(PageUrl, m[i].kids[k].src) \in Range(r)
                    /\ VisibleText(s_self.kind, m[i]) # <<>> =>
                         VisibleText(s_self.kind, m[i]) \in Range(s_acc.text_parts)

\* an element with an empty src and a data-src, then one that names no image
\* but holds two and has text; "http://h/a" and "/a" are one URL
C24_Witness ==
    /\ s_pc = "done" /\ s_out.kind = "returned"
    /\ s_self.kind = "playwright" /\ s_selectors = <<".b">>
    /\ Len(s_dom) = 2
    /\ s_dom[1].src = "" /\ s_dom[1].data_src = "http://h/a"
    /\ s_dom[2].src = Absent /\ Len(s_dom[2].kids) = 2
    /\ s_out.val.img_urls = <<1, 2>>
    /\ s_out.val.element_text = <<"T", NL, "U">>

-----------------------------------------------------------------------------
(* scrape: the two backends *)

OtherKind == IF s_self.kind = "requests" THEN "playwright" ELSE "requests"

\* both backends read the same text in every matched element
SameVisibleText ==
    LET m == Matched(s_dom, s_selectors, Len(s_selectors))
    IN  \A i \in 1..Len(m) : VisibleText("requests", m[i]) = VisibleText("playwright", m[i])

\* C25: what a scrape returns after a successful load is what the other
\* backend's loop makes of the same page and selectors: the same img_urls,
\* and the same element_text when both read the same text in each matched
\* element.
C25_BackendsAgree ==
    (s_pc = "done" /\ s_out.kind = "returned") =>
        LET other == SelectorLoop(OtherKind, s_dom, s_selectors, Len(s_selectors))
        IN  /\ s_out.val.img_urls = other.img_urls
            /\ SameVisibleText =>
                 s_out.val.element_text = Join(other.text_parts)

\* two elements with images, nested images and the same text for both
C25_Witness ==
    /\ s_pc = "done" /\ s_out.kind = "returned"
    /\ s_self.kind = "requests"
    /\ SameVisibleText
    /\ Len(s_dom) = 2 /\ s_dom[1].kids # <<>> /\ s_selectors = <<".a", ".b">>
    /\ s_out.val.img_urls = <<2, 1>>
    /\ s_out.val.element_text = <<"U", NL, "U">>

-----------------------------------------------------------------------------
(* fetch_image *)

\* C26: _is_svg says yes exactly of the bodies that, their leading
\* whitespace stripped, start with "<svg", or start with "<?xml" and hold
\* "<svg" within the first 1024 bytes.
C26_SvgExactly ==
    f_pc \in {"decode", "done"} /\ f_resp.net = "ok" /\ f_resp.status = 200 =>
        (f_svg <=>
            \/ StartsWith(lstrip(f_resp.body), SvgTag)
            \/ /\ StartsWith(lstrip(f_resp.body), XmlDecl)
               /\ Contains(Prefix(f_resp.body, 1024), SvgTag))

DecodersCalled == {i \in DOMAIN f_log : f_log[i].op \in {"svg_to_pil", "Image.open"}}

\* C27: fetch_image makes one GET, with the fetcher's timeout; on a status
\* of failure it raises with no decoder called; else it calls one decoder on
\* the body: the SVG renderer when _is_svg said yes, the raster decoder when
\* it said no.
C27_OneGetThenOneDecoder ==
    f_pc \in {"detect", "decode", "done"} =>
        /\ f_log[1] = ImageOp("get", f_self.timeout)
        /\ \A i \in 2..Len(f_log) : f_log[i].op # "get"
        /\ (f_resp.net # "ok" \/ f_resp.status >= 400) =>
              /\ f_pc = "done" /\ f_out.kind = "raised"
              /\ DecodersCalled = {}
        /\ (f_pc = "done" /\ f_resp.net = "ok" /\ f_resp.status < 400) =>
              /\ DecodersCalled = {2}
              /\ f_log[2] = ImageOp(IF f_svg THEN "svg_to_pil" ELSE "Image.open",
                                    Len(f_resp.body))

\* a 404 whose body is SVG: raised, nothing decoded
C27_Witness ==
    /\ f_pc = "done"
    /\ f_resp = [net |-> "ok", status |-> 404, body |-> SvgTag]
    /\ f_out = Raised("HTTPError")
    /\ Len(f_log) = 1

-----------------------------------------------------------------------------
(* Cache *)

HeldBefore(st, data) ==
    \E i \in 1..Len(k_last.before[st].items) : DataEq(k_last.before[st].items[i].data, data)

\* C28: a safe add returns True exactly when the topic held no item with
\* equal data; then the item is the topic's newest; else the caches are as
\* they were. Among the items of a topic, one that equals an earlier one was
\* not added safely.
C28_SafeAddIffNew ==
    /\ (k_last.op = "add" /\ k_last.safe) =>
         LET st == sanitize_topic(k_last.topic)
         IN  /\ k_last.ret <=> ~HeldBefore(st, k_last.data)
             /\ k_last.ret =>
                  /\ Len(k_caches[st].items) = Len(k_last.before[st].items) + 1
                  /\ k_caches[st].items[Len(k_caches[st].items)].data = k_last.data
                  /\ SubSeq(k_caches[st].items, 1, Len(k_last.before[st].items))
                       = k_last.before[st].items
             /\ ~k_last.ret => k_caches = k_last.before
    /\ \A st \in SanTopics : \A i, j \in 1..Len(k_caches[st].items) :
         (i < j /\ DataEq(k_caches[st].items[i].data, k_caches[st].items[j].data))
         => ~k_caches[st].items[j].safe

\* "X" offered safely to a topic that holds "x" and "y": refused
C28_Witness ==
    /\ k_last.op = "add" /\ k_last.safe /\ ~k_last.ret
    /\ k_last.data = "X"
    /\ Len(k_caches[<<"a", "b">>].items) = 2
    /\ k_caches[<<"a", "b">>].items[1].data = "x"
    /\ k_caches[<<"a", "b">>].items[1].safe /\ k_caches[<<"a", "b">>].items[2].safe

\* C29: a topic's cache holds the items added under the topics of its
\* alphanumeric form and no other; dump_topic returns exactly these, and
\* leaves the caches as they were, with no cache made for a topic never
\* added to; add_to_topic changes no topic but its own.
C29_TopicsIsolated ==
    /\ \A st \in SanTopics : \A i \in 1..Len(k_caches[st].items) :
         sanitize_topic(k_caches[st].items[i].topic) = st
    /\ \A st \in SanTopics : ~k_caches[st].open => k_caches[st].items = <<>>
    /\ k_last.op = "dump" =>
         LET st == sanitize_topic(k_last.topic)
         IN  /\ Range(k_last.dumped) = Range(k_caches[st].items)
             /\ Len(k_last.dumped) = Len(k_caches[st].items)
             /\ k_caches = k_last.before
             /\ ~k_last.before[st].open => k_last.dumped = <<>> /\ ~k_caches[st].open
    /\ k_last.op = "add" =>
         \A st \in SanTopics \ {sanitize_topic(k_last.topic)} :
             k_caches[st] = k_last.before[st]

\* "a b" dumped: the items added under "ab" and "a b", not the one under "c"
C29_Witness ==
    /\ k_last.op = "dump" /\ k_last.topic = <<"a", " ", "b">>
    /\ Len(k_last.dumped) = 2
    /\ k_last.dumped[1].topic = <<"a", "b">> /\ k_last.dumped[2].topic = <<"a", " ", "b">>
    /\ Len(k_caches[<<"c">>].items) = 1
    /\ ~k_caches[<<>>].open

-----------------------------------------------------------------------------
(* main *)

\* C30: every add_to_topic and dump_topic call of main is made while the
\* directory the Cache was made on exists, not yet removed.
C30_DirectoryOutlivesUse ==
    \A i \in 1..Len(m_log) : m_log[i].dir = "exists"

=============================================================================
